---- MODULE Spec2Model ----
(***************************************************************************)
(* Document registry of yjs-inspector: the SQLite edition of the document  *)
(* manager API (src/src/lib/document-manager-api.ts, the PHP part).        *)
(*                                                                         *)
(* The three tables are sets of rows.  Every HTTP request is a process     *)
(* that runs its handler one SQL statement at a time, so that requests     *)
(* interleave between statements exactly where the PHP code lets them.     *)
(*                                                                         *)
(* SQLite (WAL mode, PDO's deferred BEGIN):                                *)
(*  - a statement outside a transaction sees the last committed state;     *)
(*  - the first SELECT of a transaction takes a read snapshot;             *)
(*  - a write inside a transaction that has read must upgrade its          *)
(*    snapshot: SQLite fails it at once with SQLITE_BUSY ("database is     *)
(*    locked") when another connection holds the write lock or has         *)
(*    committed since the snapshot was taken;                              *)
(*  - a write outside a transaction waits for the write lock;              *)
(*  - uncommitted rows are invisible to other connections.                 *)
(*                                                                         *)
(* A request is accepted in the step that runs its first statement, and a  *)
(* parameter is drawn in the step whose statement first reads it.          *)
(*                                                                         *)
(* Beside it: the JSON edition (src/congruum-doc-manager.php), whose        *)
(* requests read the whole file and write it back; the two editions served *)
(* the same requests; the import of the JSON file into the tables; the     *)
(* share state of the document browser (src/unnamed/part_000); and the     *)
(* DocumentManagerProvider (src/src/providers/document-manager.tsx) with   *)
(* the promises of waitForSynced.  Each part has its own specification.    *)
(*                                                                         *)
(* Not modelled: created_at, the timestamps in the responses, missing      *)
(* parameters, and the JSON edition's generate_id, which is that of the    *)
(* SQLite edition.                                                         *)
(***************************************************************************)
EXTENDS Integers, Sequences, FiniteSets, TLC

\* ------------------------------------------------------------- bounds
MaxReqs == 2
NumRooms == 2
\* the WebsocketProviders a DocumentManagerProvider constructs, and the
\* promises its waitForSynced returns
MaxProviders == 2
MaxPromises == 2

\* two connections serve requests concurrently
Procs == {1, 2}
NoProc == 0
Rooms == 1..NumRooms
NoRoom == 0

Users == {"alice", "bob", "root"}
Admins == {"root"}
Grantees == {"bob"}
Ids == {"d1", "d2"}
Versions == {"1", "2"}
\* an id and a version label that the format checks are there to refuse
InvalidIds == {"a/b"}
InvalidVersions == {"1-2"}
IdInputs == Ids \cup InvalidIds
CreateTitles == {"Untitled"}
\* create is sent without app; list is sent without app, list_by_app with one
CreateApps == {""}
ListInputs == {<<"list", "">>, <<"list_by_app", "text">>}
\* a version parameter that is not sent is the empty string
Omitted == ""
CreateVersions == {Omitted}
AccessVersions == {Omitted, "1", "2"}
RenameTitles == {"T"}
\* the permissions parameter as its comma-separated fields, which is what
\* explode(',', ...) returns: the empty string is one empty field
PermInputs == {<<"read">>, <<"write">>, <<"read", "write">>, <<"">>, <<"read", "admin">>}
SomePerms == {<<"read">>, <<"write">>, <<"read", "write">>, <<"admin">>}
Methods == {"GET", "POST"}
\* the actions of the switch, and one it has no case for
Actions ==
    {"create", "list", "list_by_app", "rename", "share", "revoke", "delete", "access",
     "create_version", "generate_id"}
UnknownActions == {"restore"}

VARIABLES
    documents,   \* table documents: rows [id, owner, app, title, deleted, updated_at]
    versions,    \* table document_versions: rows [document_id, version, room_id]
    shares,      \* table document_shares: rows [document_id, username, can_read, can_write]
    writer,      \* the connection holding SQLite's write lock, or NoProc
    stale,       \* stale[p]: a commit happened after p's transaction took its snapshot
    pc,          \* pc[p]: the statement request p executes next
    req,         \* req[p]: the request's parameters and $authorized_user
    room,        \* room[p]: the handler's $roomId / $room
    todo,        \* todo[p]: list's rows still to be completed by getDocumentFull
    resp,        \* resp[p]: the HTTP response
    nreq,        \* requests accepted so far
    docsFile,    \* congruum-docs.json: the documents of the JSON edition
    docsFileExists,  \* file_exists(congruum-docs.json)
    jsonDocs,    \* jsonDocs[p]: the JSON edition's $docs, the import's $jsonDocs
    shareDoc,    \* the document browser's state shareDoc, NoDoc for null
    shareUsername,     \* the browser's state shareUsername
    sharePermissions,  \* the browser's state sharePermissions
    docList,     \* the grants on the badges of the browser's list: <<id, username>>
    click,       \* the browser's last click or input
    issued,      \* the API call that click issued, NoCall for none
    wsProvider,  \* DocumentManagerProvider.wsProvider, NoProvider for null
    live,        \* the WebsocketProviders constructed and not destroyed
    made,        \* the WebsocketProviders constructed so far
    promises,    \* the promises waitForSynced has returned
    last         \* the last call or event of the DocumentManagerProvider

\* the state of the JSON edition; the SQLite edition touches it in the import only
jsonVars == <<docsFile, docsFileExists, jsonDocs>>
\* the state of the document browser
uiVars == <<shareDoc, shareUsername, sharePermissions, docList, click, issued>>
\* the state of the DocumentManagerProvider
dmVars == <<wsProvider, live, made, promises, last>>
frontend == <<uiVars, dmVars>>
outside == <<jsonVars, frontend>>

vars ==
    <<documents, versions, shares, writer, stale, pc, req, room, todo, resp, nreq, outside>>
store == <<documents, versions, shares>>

\* ------------------------------------------------------------ requests
NoReq ==
    [action |-> "", method |-> "", user |-> "", id |-> "", version |-> "", title |-> "",
     app |-> "", username |-> "", permissions |-> <<>>, all |-> FALSE, length |-> <<>>,
     now |-> 0]

\* the parameters a handler reads before its first statement
Request(action, user, id) ==
    [NoReq EXCEPT !.action = action, !.user = user, !.id = id]

\* ----------------------------------------------------------- responses
NoResp ==
    [code |-> 0, error |-> "", docs |-> {}, room |-> NoRoom, perms |-> {}, success |-> FALSE,
     id |-> <<>>]

ErrorResp(code, error) == [NoResp EXCEPT !.code = code, !.error = error]

\* a document, a list of documents, or null (the empty set)
DocsResp(docs) == [NoResp EXCEPT !.code = 200, !.docs = docs]

RoomResp(r, perms) == [NoResp EXCEPT !.code = 200, !.room = r, !.perms = perms]

SuccessResp == [NoResp EXCEPT !.code = 200, !.success = TRUE]

\* the id of generate_id, a sequence of characters
IdResp(id) == [NoResp EXCEPT !.code = 200, !.id = id]

ErrLocked == "database is locked"
ErrRoomTaken == "UNIQUE constraint failed: document_versions.room_id"
ErrVersionTaken == "UNIQUE constraint failed: document_versions.document_id, document_versions.version"
ErrDocTaken == "UNIQUE constraint failed: documents.id"
ErrForeignKey == "FOREIGN KEY constraint failed"

\* -------------------------------------------------------------- helpers
isAdmin(user) == user \in Admins

DocRows(docs, docId) == {d \in docs : d.id = docId}
LiveRows(docs, docId) == {d \in docs : d.id = docId /\ ~d.deleted}
ShareRows(shs, docId, user) ==
    {s \in shs : s.document_id = docId /\ s.username = user}
VersionRows(vers, docId, version) ==
    {v \in vers : v.document_id = docId /\ v.version = version}

hasReadAccess(docs, shs, docId, user) ==
    \/ isAdmin(user)
    \/ \E d \in LiveRows(docs, docId) :
          \/ d.owner = user
          \/ \E s \in shs : /\ s.document_id = d.id
                            /\ s.username = user
                            /\ s.can_read

hasWriteAccess_AnyGrant(docs, shs, docId, user) ==
    \/ isAdmin(user)
    \/ \E d \in LiveRows(docs, docId) :
          \/ d.owner = user
          \/ \E s \in shs : /\ s.document_id = d.id
                            /\ s.username = user

hasWriteAccess_ReadFlag(docs, shs, docId, user) ==
    \/ isAdmin(user)
    \/ \E d \in LiveRows(docs, docId) :
          \/ d.owner = user
          \/ \E s \in shs : /\ s.document_id = d.id
                            /\ s.username = user
                            /\ s.can_read

hasWriteAccess(docs, shs, docId, user) ==
    \/ isAdmin(user)
    \/ \E d \in LiveRows(docs, docId) :
          \/ d.owner = user
          \/ \E s \in shs : /\ s.document_id = d.id
                            /\ s.username = user
                            /\ s.can_write

\* the rooms of the stored rows and of the requests being served
RoomsInUse ==
    ({v.room_id : v \in versions} \cup {room[q] : q \in Procs}) \ {NoRoom}

\* generateRandomId: any token; the model keeps NumRooms of them.  The tokens
\* are interchangeable, so a draw is a room in use or the first room that is not.
generateRandomId ==
    RoomsInUse \cup {r \in Rooms \ RoomsInUse : \A t \in Rooms \ RoomsInUse : r <= t}

SharePerms(s) ==
    (IF s.can_read THEN {"read"} ELSE {}) \cup (IF s.can_write THEN {"write"} ELSE {})

DocJson(d, vers, shs) ==
    [id |-> d.id, owner |-> d.owner, app |-> d.app, title |-> d.title,
     versions |-> {<<v.version, v.room_id>> : v \in {w \in vers : w.document_id = d.id}},
     shared_with |-> {<<s.username, SharePerms(s)>> :
                          s \in {t \in shs : t.document_id = d.id}}]

\* getDocumentFull: the empty set stands for PHP's null
getDocumentFull(docs, vers, shs, docId) ==
    {DocJson(d, vers, shs) : d \in LiveRows(docs, docId)}

\* ---------------------------------------------------- SQLite primitives
\* a write inside a transaction that has already read
UpgradeFails(p) == stale[p] \/ writer # NoProc

\* the transactions that have read and not yet written
InSnapshot(q) == pc[q] \in {"create_insert_doc", "cv_insert"}

\* every other open snapshot is behind once a write commits
Committed(p) == [q \in Procs |-> q # p /\ InSnapshot(q)]

\* a statement outside a transaction that changed rows, or changed none
Autocommit(p, changed) == IF changed THEN Committed(p) ELSE stale

DocumentInsertError(docs, row) ==
    IF DocRows(docs, row.id) # {} THEN ErrDocTaken ELSE ""

VersionInsertError_NoUnique(docs, vers, row) ==
    IF VersionRows(vers, row.document_id, row.version) # {} THEN ErrVersionTaken
    ELSE IF DocRows(docs, row.document_id) = {} THEN ErrForeignKey
    ELSE ""

VersionInsertError(docs, vers, row) ==
    IF VersionRows(vers, row.document_id, row.version) # {} THEN ErrVersionTaken
    ELSE IF \E v \in vers : v.room_id = row.room_id THEN ErrRoomTaken
    ELSE IF DocRows(docs, row.document_id) = {} THEN ErrForeignKey
    ELSE ""

\* ------------------------------------------------------ request control
\* time(), in seconds since the store was seeded.  A running clock has each
\* request arrive one second after the one before it; with the other, all the
\* requests arrive within the second of the seeding.
time(running) == IF running THEN nreq' ELSE 0

Finish(p, r) ==
    /\ pc' = [pc EXCEPT ![p] = "done"]
    /\ resp' = [resp EXCEPT ![p] = r]
    /\ UNCHANGED outside

Goto(p, label) ==
    /\ pc' = [pc EXCEPT ![p] = label]
    /\ UNCHANGED <<resp, outside>>

\* a request arrives and is served by the first free connection
Arrive(p) ==
    /\ pc[p] = "idle"
    /\ \A q \in Procs : q < p => pc[q] # "idle"
    /\ nreq < MaxReqs
    /\ nreq' = nreq + 1

\* the method each case of the switch hands to requireMethod
RequiredMethod(action) ==
    IF action \in {"list", "list_by_app", "access", "generate_id"} THEN "GET" ELSE "POST"

\* requireMethod lets the request through
requireMethod_Any(actual, method) == TRUE

requireMethod(actual, method) == actual = method

\* the request passes the requireMethod of its case and the case goes on
Accept(p, r) ==
    /\ Arrive(p)
    /\ \E m \in Methods :
          /\ requireMethod(m, RequiredMethod(r.action))
          /\ req' = [req EXCEPT ![p] = [r EXCEPT !.method = m]]

\* ------------------------------------------------------- format checks
\* the characters of the ids and version labels of the requests
Text ==
    [s \in IdInputs \cup Versions \cup InvalidVersions |->
        CASE s = "d1" -> <<"d", "1">>
          [] s = "d2" -> <<"d", "2">>
          [] s = "a/b" -> <<"a", "/", "b">>
          [] s = "1" -> <<"1">>
          [] s = "2" -> <<"2">>
          [] s = "1-2" -> <<"1", "-", "2">>]

Lower ==
    {"a", "b", "c", "d", "e", "f", "g", "h", "i", "j", "k", "l", "m",
     "n", "o", "p", "q", "r", "s", "t", "u", "v", "w", "x", "y", "z"}
Upper ==
    {"A", "B", "C", "D", "E", "F", "G", "H", "I", "J", "K", "L", "M",
     "N", "O", "P", "Q", "R", "S", "T", "U", "V", "W", "X", "Y", "Z"}
Digits == {"0", "1", "2", "3", "4", "5", "6", "7", "8", "9"}

\* preg_match('/^[class]+$/', t): one or more characters of the class up to the
\* end of the subject, or up to a newline that ends it
preg_match(class, t) ==
    \E n \in 1..Len(t) :
        /\ \A i \in 1..n : t[i] \in class
        /\ n = Len(t) \/ (n = Len(t) - 1 /\ t[Len(t)] = "\n")

\* [a-zA-Z0-9_\-\.]
IdClass == Lower \cup Upper \cup Digits \cup {"_", "-", "."}
\* [a-zA-Z0-9\.]
VersionClass == Lower \cup Upper \cup Digits \cup {"."}

\* the ids and the version labels of the requests that match, worked out once
MatchingIds == {s \in IdInputs : preg_match(IdClass, Text[s])}
MatchingVersions == {s \in Versions \cup InvalidVersions : preg_match(VersionClass, Text[s])}

validateId(id) == id \in MatchingIds
validateVersion(version) == version \in MatchingVersions

\* the cases of the switch that call validateId, and those that call validateVersion
ValidatesId == {"create", "rename", "share", "access", "create_version"}
ValidatesVersion == {"create", "access", "create_version"}

\* the message of the format check that ends the request, "" when none does
ValidationError(action, id, version) ==
    IF action \in ValidatesId /\ ~validateId(id) THEN "Invalid ID format"
    ELSE IF action \in ValidatesVersion /\ ~validateVersion(version)
    THEN "Invalid version format"
    ELSE ""

\* a format check ends the request: http_response_code(400); die(...).  The
\* requests that pass go on in the handlers, which draw a version that passes.
\* A request with a bad id is sent with version "1", one with a bad version
\* with a good id.
InvalidArgument(p) ==
    /\ Arrive(p)
    /\ \E a \in ValidatesId \cup ValidatesVersion, id \in IdInputs,
          v \in Versions \cup InvalidVersions :
          /\ id \in InvalidIds => v = "1"
          /\ ValidationError(a, id, v) # ""
          /\ req' = [req EXCEPT ![p] =
                [Request(a, "", id) EXCEPT !.version = v, !.method = RequiredMethod(a)]]
          /\ Finish(p, ErrorResp(400, ValidationError(a, id, v)))
    /\ UNCHANGED <<store, writer, stale, room, todo>>

\* requireMethod ends the request: http_response_code(405); die(...)
MethodNotAllowed(p) ==
    /\ Arrive(p)
    /\ \E a \in Actions, m \in Methods :
          /\ ~requireMethod(m, RequiredMethod(a))
          /\ req' = [req EXCEPT ![p] = [NoReq EXCEPT !.action = a, !.method = m]]
          /\ Finish(p, ErrorResp(405,
                "Method Not Allowed. Use " \o RequiredMethod(a) \o " for this action."))
    /\ UNCHANGED <<store, writer, stale, room, todo>>

\* the default case of the switch: no requireMethod, no statement
UnknownAction(p) ==
    /\ Arrive(p)
    /\ \E a \in UnknownActions, u \in Users, id \in Ids :
          req' = [req EXCEPT ![p] = Request(a, u, id)]
    /\ Finish(p, ErrorResp(400, "Unknown action"))
    /\ UNCHANGED <<store, writer, stale, room, todo>>

\* the response has been sent; the connection is free again
Return(p) ==
    /\ pc[p] = "done"
    /\ pc' = [pc EXCEPT ![p] = "idle"]
    /\ req' = [req EXCEPT ![p] = NoReq]
    /\ resp' = [resp EXCEPT ![p] = NoResp]
    /\ room' = [room EXCEPT ![p] = NoRoom]
    /\ todo' = [todo EXCEPT ![p] = {}]
    /\ UNCHANGED <<store, writer, stale, nreq, outside>>

\* --------------------------------------------------------------- create
CreateDocRow(r) ==
    [id |-> r.id, owner |-> r.user, app |-> r.app, title |-> r.title, deleted |-> FALSE,
     updated_at |-> r.now]

VersionRow(r, roomId) ==
    [document_id |-> r.id, version |-> r.version, room_id |-> roomId]

\* $version = (string)($params['version'] ?? '1') of create and access
versionOrDefault(v) == IF v = Omitted THEN "1" ELSE v

\* the version row of create
CreateVersionRow(r, roomId) ==
    VersionRow([r EXCEPT !.version = versionOrDefault(r.version)], roomId)

\* the existence check of create: any row with the id, deleted or not
CreateExists_LiveOnly(docs, docId) == LiveRows(docs, docId) # {}

CreateExists(docs, docId) == DocRows(docs, docId) # {}

\* beginTransaction; SELECT 1 FROM documents WHERE id = ?
CreateSelect(p, running) ==
    /\ \E u \in Users, id \in IdInputs :
          validateId(id) /\ Accept(p, [Request("create", u, id) EXCEPT !.now = time(running)])
    /\ IF CreateExists(documents, req'[p].id)
       THEN /\ Finish(p, ErrorResp(409, "Document already exists"))
            /\ UNCHANGED stale
       ELSE /\ Goto(p, "create_insert_doc")
            /\ stale' = [stale EXCEPT ![p] = FALSE]
    /\ UNCHANGED <<store, writer, room, todo>>

\* an INSERT INTO documents outside the transaction: the row is there at once
CreateInsertDoc_Autocommit(p) ==
    /\ pc[p] = "create_insert_doc"
    /\ writer = NoProc
    /\ \E t \in CreateTitles, a \in CreateApps :
          req' = [req EXCEPT ![p].title = t, ![p].app = a]
    /\ IF DocumentInsertError(documents, CreateDocRow(req'[p])) # ""
       THEN /\ Finish(p, ErrorResp(500, DocumentInsertError(documents, CreateDocRow(req'[p]))))
            /\ UNCHANGED <<documents, writer>>
       ELSE /\ Goto(p, "create_insert_version")
            /\ documents' = documents \cup {CreateDocRow(req'[p])}
            /\ writer' = p
    /\ stale' = [stale EXCEPT ![p] = FALSE]
    /\ UNCHANGED <<versions, shares, room, todo, nreq>>

\* INSERT INTO documents
CreateInsertDoc(p) ==
    /\ pc[p] = "create_insert_doc"
    /\ \E t \in CreateTitles, a \in CreateApps :
          req' = [req EXCEPT ![p].title = t, ![p].app = a]
    /\ IF UpgradeFails(p)
       THEN /\ Finish(p, ErrorResp(500, ErrLocked))
            /\ UNCHANGED writer
       ELSE IF DocumentInsertError(documents, CreateDocRow(req'[p])) # ""
       THEN /\ Finish(p, ErrorResp(500, DocumentInsertError(documents, CreateDocRow(req'[p]))))
            /\ UNCHANGED writer
       ELSE /\ Goto(p, "create_insert_version")
            /\ writer' = p
    /\ stale' = [stale EXCEPT ![p] = FALSE]
    /\ UNCHANGED <<store, room, todo, nreq>>

\* a failed INSERT INTO document_versions that commits the document row
CreateInsertVersion_NoRollback(p) ==
    /\ pc[p] = "create_insert_version"
    /\ \E v \in CreateVersions :
          /\ validateVersion(versionOrDefault(v))
          /\ req' = [req EXCEPT ![p].version = v]
    /\ \E r \in generateRandomId : room' = [room EXCEPT ![p] = r]
    /\ LET err == VersionInsertError(documents \cup {CreateDocRow(req'[p])}, versions,
                                     CreateVersionRow(req'[p], room'[p]))
       IN IF err # ""
          THEN /\ Finish(p, ErrorResp(500, err))
               /\ documents' = documents \cup {CreateDocRow(req'[p])}
               /\ writer' = NoProc
          ELSE /\ Goto(p, "create_commit")
               /\ UNCHANGED <<documents, writer>>
    /\ UNCHANGED <<versions, shares, stale, todo, nreq>>

\* INSERT INTO document_versions, the document row pending in the transaction
CreateInsertVersion(p) ==
    /\ pc[p] = "create_insert_version"
    /\ \E v \in CreateVersions :
          /\ validateVersion(versionOrDefault(v))
          /\ req' = [req EXCEPT ![p].version = v]
    /\ \E r \in generateRandomId : room' = [room EXCEPT ![p] = r]
    /\ LET err == VersionInsertError(documents \cup {CreateDocRow(req'[p])}, versions,
                                     CreateVersionRow(req'[p], room'[p]))
       IN IF err # ""
          THEN /\ Finish(p, ErrorResp(500, err))
               /\ writer' = NoProc
          ELSE /\ Goto(p, "create_commit")
               /\ UNCHANGED writer
    /\ UNCHANGED <<store, stale, todo, nreq>>

\* commit
CreateCommit(p) ==
    /\ pc[p] = "create_commit"
    /\ documents' = documents \cup {CreateDocRow(req[p])}
    /\ versions' = versions \cup {CreateVersionRow(req[p], room[p])}
    /\ writer' = NoProc
    /\ stale' = Committed(p)
    /\ Goto(p, "create_respond")
    /\ UNCHANGED <<shares, req, room, todo, nreq>>

\* echo json_encode(getDocumentFull($db, $docId))
CreateRespond(p) ==
    /\ pc[p] = "create_respond"
    /\ Finish(p, DocsResp(getDocumentFull(documents, versions, shares, req[p].id)))
    /\ UNCHANGED <<store, writer, stale, req, room, todo, nreq>>

Create(p, running) ==
    \/ CreateSelect(p, running)
    \/ CreateInsertDoc(p)
    \/ CreateInsertVersion(p)
    \/ CreateCommit(p)
    \/ CreateRespond(p)

\* ------------------------------------------------------- create_version
\* hasWriteAccess, outside the transaction
CreateVersionAuthorize(p) ==
    /\ \E u \in Users, id \in IdInputs :
          validateId(id) /\ Accept(p, Request("create_version", u, id))
    /\ IF hasWriteAccess(documents, shares, req'[p].id, req'[p].user)
       THEN Goto(p, "cv_select")
       ELSE Finish(p, ErrorResp(403, "Access denied or not found"))
    /\ UNCHANGED <<store, writer, stale, room, todo>>

\* the rows create_version's SELECT room_id finds
CreateVersionFound_None(vers, docId, version) == {}

CreateVersionFound(vers, docId, version) == VersionRows(vers, docId, version)

\* beginTransaction; SELECT room_id ...; a found room is committed and returned
CreateVersionSelect(p) ==
    /\ pc[p] = "cv_select"
    /\ \E v \in Versions : validateVersion(v) /\ req' = [req EXCEPT ![p].version = v]
    /\ LET found == CreateVersionFound(versions, req'[p].id, req'[p].version)
       IN IF found # {}
          THEN /\ \E v \in found : Finish(p, RoomResp(v.room_id, {}))
               /\ UNCHANGED stale
          ELSE /\ Goto(p, "cv_insert")
               /\ stale' = [stale EXCEPT ![p] = FALSE]
    /\ UNCHANGED <<store, writer, room, todo, nreq>>

\* $room = generateRandomId(); INSERT INTO document_versions
CreateVersionInsert(p) ==
    /\ pc[p] = "cv_insert"
    /\ \E r \in generateRandomId : room' = [room EXCEPT ![p] = r]
    /\ IF UpgradeFails(p)
       THEN /\ Finish(p, ErrorResp(500, ErrLocked))
            /\ UNCHANGED writer
       ELSE IF VersionInsertError(documents, versions, VersionRow(req[p], room'[p])) # ""
       THEN /\ Finish(p, ErrorResp(500,
                   VersionInsertError(documents, versions, VersionRow(req[p], room'[p]))))
            /\ UNCHANGED writer
       ELSE /\ Goto(p, "cv_commit")
            /\ writer' = p
    /\ stale' = [stale EXCEPT ![p] = FALSE]
    /\ UNCHANGED <<store, req, todo, nreq>>

\* commit; echo the room
CreateVersionCommit(p) ==
    /\ pc[p] = "cv_commit"
    /\ versions' = versions \cup {VersionRow(req[p], room[p])}
    /\ writer' = NoProc
    /\ stale' = Committed(p)
    /\ Finish(p, RoomResp(room[p], {}))
    /\ UNCHANGED <<documents, shares, req, room, todo, nreq>>

CreateVersion(p) ==
    \/ CreateVersionAuthorize(p)
    \/ CreateVersionSelect(p)
    \/ CreateVersionInsert(p)
    \/ CreateVersionCommit(p)

\* --------------------------------------------------------------- rename
RenameAuthorize(p) ==
    /\ \E u \in Users, id \in IdInputs :
          validateId(id) /\ Accept(p, Request("rename", u, id))
    /\ IF hasWriteAccess(documents, shares, req'[p].id, req'[p].user)
       THEN Goto(p, "rename_update")
       ELSE Finish(p, ErrorResp(404, "Access denied or not found"))
    /\ UNCHANGED <<store, writer, stale, room, todo>>

\* UPDATE documents SET title = ?, updated_at = ? WHERE id = ?
RenameUpdate(p, running) ==
    /\ pc[p] = "rename_update"
    /\ writer = NoProc
    /\ UNCHANGED nreq
    /\ \E t \in RenameTitles : req' = [req EXCEPT ![p].title = t]
    /\ documents' = {IF d.id = req[p].id
                     THEN [d EXCEPT !.title = req'[p].title, !.updated_at = time(running)]
                     ELSE d : d \in documents}
    /\ stale' = Autocommit(p, DocRows(documents, req[p].id) # {})
    /\ Goto(p, "rename_respond")
    /\ UNCHANGED <<versions, shares, writer, room, todo>>

RenameRespond(p) ==
    /\ pc[p] = "rename_respond"
    /\ Finish(p, DocsResp(getDocumentFull(documents, versions, shares, req[p].id)))
    /\ UNCHANGED <<store, writer, stale, req, room, todo, nreq>>

Rename(p, running) ==
    \/ RenameAuthorize(p)
    \/ RenameUpdate(p, running)
    \/ RenameRespond(p)

\* ------------------------------------------------ share, revoke, delete
\* SELECT owner FROM documents WHERE id = ? AND deleted = 0, and the test
\* ($owner !== $authorized_user && !isAdmin($authorized_user)) negated
IsOwnerOrAdmin_Writer(docs, shs, docId, user) == hasWriteAccess(docs, shs, docId, user)

IsOwnerOrAdmin(docs, shs, docId, user) ==
    \/ \E d \in LiveRows(docs, docId) : d.owner = user
    \/ isAdmin(user)

\* a loop that looks at the first element only
InvalidPermission_FirstOnly(perms) ==
    IF Len(perms) >= 1 /\ perms[1] \notin {"read", "write"} THEN 1 ELSE 0

\* the place of the first element of the exploded permissions that is not
\* valid, 0 when all are
InvalidPermission(perms) ==
    IF \E i \in 1..Len(perms) : perms[i] \notin {"read", "write"}
    THEN CHOOSE i \in 1..Len(perms) :
            /\ perms[i] \notin {"read", "write"}
            /\ \A j \in 1..(i - 1) : perms[j] \in {"read", "write"}
    ELSE 0

in_array(x, arr) == \E i \in 1..Len(arr) : arr[i] = x

ShareRow(r) ==
    [document_id |-> r.id, username |-> r.username,
     can_read |-> in_array("read", r.permissions),
     can_write |-> in_array("write", r.permissions)]

\* an upsert that keeps the flags the row already had
Upsert_Merge(shs, row) ==
    {s \in shs : ~(s.document_id = row.document_id /\ s.username = row.username)}
        \cup {[row EXCEPT
                  !.can_read = row.can_read
                      \/ \E s \in ShareRows(shs, row.document_id, row.username) : s.can_read,
                  !.can_write = row.can_write
                      \/ \E s \in ShareRows(shs, row.document_id, row.username) : s.can_write]}

\* an upsert whose DO UPDATE sets can_write alone
Upsert_WriteFlagOnly(shs, row) ==
    {s \in shs : ~(s.document_id = row.document_id /\ s.username = row.username)}
        \cup (IF ShareRows(shs, row.document_id, row.username) = {} THEN {row}
              ELSE {[s EXCEPT !.can_write = row.can_write] :
                       s \in ShareRows(shs, row.document_id, row.username)})

\* INSERT ... ON CONFLICT(document_id, username) DO UPDATE SET can_read, can_write
Upsert(shs, row) ==
    {s \in shs : ~(s.document_id = row.document_id /\ s.username = row.username)}
        \cup {row}

ShareAuthorize(p) ==
    /\ \E u \in Users, id \in IdInputs :
          validateId(id) /\ Accept(p, Request("share", u, id))
    /\ IF ~IsOwnerOrAdmin(documents, shares, req'[p].id, req'[p].user)
       THEN Finish(p, ErrorResp(404, "Not found or not owner"))
       ELSE Goto(p, "share_validate")
    /\ UNCHANGED <<store, writer, stale, room, todo>>

\* explode(',', $params['permissions']) and the in_array loop
ShareValidate(p, inputs) ==
    /\ pc[p] = "share_validate"
    /\ \E perms \in inputs : req' = [req EXCEPT ![p].permissions = perms]
    /\ IF InvalidPermission(req'[p].permissions) # 0
       THEN Finish(p, ErrorResp(400,
                "Invalid permission: "
                    \o req'[p].permissions[InvalidPermission(req'[p].permissions)]))
       ELSE Goto(p, "share_upsert")
    /\ UNCHANGED <<store, writer, stale, room, todo, nreq>>

\* the upsert runs outside any try: a foreign key failure ends the request
ShareUpsert(p) ==
    /\ pc[p] = "share_upsert"
    /\ writer = NoProc
    /\ \E g \in Grantees : req' = [req EXCEPT ![p].username = g]
    /\ IF DocRows(documents, req[p].id) = {}
       THEN /\ Finish(p, ErrorResp(500, ErrForeignKey))
            /\ UNCHANGED <<shares, stale>>
       ELSE /\ shares' = Upsert(shares, ShareRow(req'[p]))
            /\ stale' = Autocommit(p, TRUE)
            /\ Goto(p, "share_respond")
    /\ UNCHANGED <<documents, versions, writer, room, todo, nreq>>

ShareRespond(p) ==
    /\ pc[p] = "share_respond"
    /\ Finish(p, DocsResp(getDocumentFull(documents, versions, shares, req[p].id)))
    /\ UNCHANGED <<store, writer, stale, req, room, todo, nreq>>

Share(p, inputs) ==
    \/ ShareAuthorize(p)
    \/ ShareValidate(p, inputs)
    \/ ShareUpsert(p)
    \/ ShareRespond(p)

RevokeAuthorize(p, ids) ==
    /\ \E u \in Users, id \in ids : Accept(p, Request("revoke", u, id))
    /\ IF ~IsOwnerOrAdmin(documents, shares, req'[p].id, req'[p].user)
       THEN Finish(p, ErrorResp(404, "Not found or not owner"))
       ELSE Goto(p, "revoke_delete")
    /\ UNCHANGED <<store, writer, stale, room, todo>>

\* a revoke that takes a grant it does not find for an error
RevokeDelete_MustExist(p) ==
    /\ pc[p] = "revoke_delete"
    /\ writer = NoProc
    /\ \E g \in Grantees : req' = [req EXCEPT ![p].username = g]
    /\ IF ShareRows(shares, req[p].id, req'[p].username) = {}
       THEN /\ Finish(p, ErrorResp(404, "Not shared"))
            /\ UNCHANGED <<shares, stale>>
       ELSE /\ shares' = shares \ ShareRows(shares, req[p].id, req'[p].username)
            /\ stale' = Autocommit(p, TRUE)
            /\ Goto(p, "revoke_respond")
    /\ UNCHANGED <<documents, versions, writer, room, todo, nreq>>

\* DELETE FROM document_shares WHERE document_id = ? AND username = ?
RevokeDelete(p) ==
    /\ pc[p] = "revoke_delete"
    /\ writer = NoProc
    /\ \E g \in Grantees : req' = [req EXCEPT ![p].username = g]
    /\ shares' = shares \ ShareRows(shares, req[p].id, req'[p].username)
    /\ stale' = Autocommit(p, shares' # shares)
    /\ Goto(p, "revoke_respond")
    /\ UNCHANGED <<documents, versions, writer, room, todo, nreq>>

RevokeRespond(p) ==
    /\ pc[p] = "revoke_respond"
    /\ Finish(p, DocsResp(getDocumentFull(documents, versions, shares, req[p].id)))
    /\ UNCHANGED <<store, writer, stale, req, room, todo, nreq>>

Revoke(p, ids) ==
    \/ RevokeAuthorize(p, ids)
    \/ RevokeDelete(p)
    \/ RevokeRespond(p)

DeleteAuthorize(p, ids) ==
    /\ \E u \in Users, id \in ids : Accept(p, Request("delete", u, id))
    /\ IF ~IsOwnerOrAdmin(documents, shares, req'[p].id, req'[p].user)
       THEN Finish(p, ErrorResp(404, "Not found or not owner"))
       ELSE Goto(p, "delete_update")
    /\ UNCHANGED <<store, writer, stale, room, todo>>

\* UPDATE documents SET deleted = 1, updated_at = ? WHERE id = ?
DeleteUpdate(p, running) ==
    /\ pc[p] = "delete_update"
    /\ writer = NoProc
    /\ UNCHANGED nreq
    /\ documents' = {IF d.id = req[p].id
                     THEN [d EXCEPT !.deleted = TRUE, !.updated_at = time(running)]
                     ELSE d : d \in documents}
    /\ stale' = Autocommit(p, DocRows(documents, req[p].id) # {})
    /\ Finish(p, SuccessResp)
    /\ UNCHANGED <<versions, shares, writer, req, room, todo>>

Delete(p, ids, running) ==
    \/ DeleteAuthorize(p, ids)
    \/ DeleteUpdate(p, running)

\* --------------------------------------------------------------- access
\* $res['can_read'] / $res['can_write'] of the row joined for the caller (NULL: FALSE)
GrantRead(shs, docId, user) == \E s \in ShareRows(shs, docId, user) : s.can_read
GrantWrite(shs, docId, user) == \E s \in ShareRows(shs, docId, user) : s.can_write

\* $res['room_id'] of the joined version row, NoRoom for NULL
JoinedRoom(vers, docId, version) ==
    IF VersionRows(vers, docId, version) = {} THEN NoRoom
    ELSE (CHOOSE v \in VersionRows(vers, docId, version) : TRUE).room_id

\* the permissions of the grant, for the owner and the admin too
AccessResponse_GrantPerms(docs, vers, shs, user, docId, version) ==
    IF LiveRows(docs, docId) = {} THEN ErrorResp(404, "Not found")
    ELSE LET isOwner == \E d \in LiveRows(docs, docId) : d.owner = user
         IN IF ~isOwner /\ ~isAdmin(user) /\ ~GrantRead(shs, docId, user)
            THEN ErrorResp(403, "Access denied")
            ELSE RoomResp(JoinedRoom(vers, docId, version),
                          (IF GrantRead(shs, docId, user) THEN {"read"} ELSE {})
                               \cup (IF GrantWrite(shs, docId, user) THEN {"write"} ELSE {}))

AccessResponse_WriteFlag(docs, vers, shs, user, docId, version) ==
    IF LiveRows(docs, docId) = {} THEN ErrorResp(404, "Not found")
    ELSE LET isOwner == \E d \in LiveRows(docs, docId) : d.owner = user
         IN IF ~isOwner /\ ~isAdmin(user) /\ ~GrantWrite(shs, docId, user)
            THEN ErrorResp(403, "Access denied")
            ELSE RoomResp(JoinedRoom(vers, docId, version),
                          IF isOwner \/ isAdmin(user) THEN {"read", "write"}
                          ELSE (IF GrantRead(shs, docId, user) THEN {"read"} ELSE {})
                               \cup (IF GrantWrite(shs, docId, user) THEN {"write"} ELSE {}))

\* the permissions of the grant for an owner or admin who has one
AccessResponse_GrantFirst(docs, vers, shs, user, docId, version) ==
    IF LiveRows(docs, docId) = {} THEN ErrorResp(404, "Not found")
    ELSE LET isOwner == \E d \in LiveRows(docs, docId) : d.owner = user
         IN IF ~isOwner /\ ~isAdmin(user) /\ ~GrantRead(shs, docId, user)
            THEN ErrorResp(403, "Access denied")
            ELSE RoomResp(JoinedRoom(vers, docId, version),
                          IF (isOwner \/ isAdmin(user)) /\ ShareRows(shs, docId, user) = {}
                          THEN {"read", "write"}
                          ELSE (IF GrantRead(shs, docId, user) THEN {"read"} ELSE {})
                               \cup (IF GrantWrite(shs, docId, user) THEN {"write"} ELSE {}))

AccessResponse(docs, vers, shs, user, docId, version) ==
    IF LiveRows(docs, docId) = {} THEN ErrorResp(404, "Not found")
    ELSE LET isOwner == \E d \in LiveRows(docs, docId) : d.owner = user
         IN IF ~isOwner /\ ~isAdmin(user) /\ ~GrantRead(shs, docId, user)
            THEN ErrorResp(403, "Access denied")
            ELSE RoomResp(JoinedRoom(vers, docId, version),
                          IF isOwner \/ isAdmin(user) THEN {"read", "write"}
                          ELSE (IF GrantRead(shs, docId, user) THEN {"read"} ELSE {})
                               \cup (IF GrantWrite(shs, docId, user) THEN {"write"} ELSE {}))

\* an access that creates the mapping it does not find
Access_AutoCreate(p) ==
    /\ \E u \in Users, id \in IdInputs, v \in AccessVersions :
          /\ validateId(id) /\ validateVersion(versionOrDefault(v))
          /\ Accept(p, [Request("access", u, id) EXCEPT !.version = v])
    /\ LET r == AccessResponse(documents, versions, shares,
                               req'[p].user, req'[p].id, versionOrDefault(req'[p].version))
       IN IF r.code = 200 /\ r.room = NoRoom /\ writer = NoProc
          THEN \E new \in Rooms \ {v.room_id : v \in versions} :
                  /\ versions' = versions \cup
                        {VersionRow([req'[p] EXCEPT !.version = versionOrDefault(req'[p].version)],
                                    new)}
                  /\ Finish(p, [r EXCEPT !.room = new])
          ELSE /\ Finish(p, r)
               /\ UNCHANGED versions
    /\ UNCHANGED <<documents, shares, writer, stale, room, todo>>

\* one SELECT with two LEFT JOINs, then the response
Access(p) ==
    /\ \E u \in Users, id \in IdInputs, v \in AccessVersions :
          /\ validateId(id) /\ validateVersion(versionOrDefault(v))
          /\ Accept(p, [Request("access", u, id) EXCEPT !.version = v])
    /\ Finish(p, AccessResponse(documents, versions, shares,
                                req'[p].user, req'[p].id, versionOrDefault(req'[p].version)))
    /\ UNCHANGED <<store, writer, stale, room, todo>>

\* ----------------------------------------------------------------- list
\* a list query without d.deleted = 0
ListRows_WithDeleted(docs, shs, user, all, app) ==
    {d \in docs :
        /\ \/ all /\ isAdmin(user)
           \/ d.owner = user
           \/ \E s \in shs : s.document_id = d.id /\ s.username = user /\ s.can_read
        /\ app # "" => d.app = app}

\* a list query without s.can_read = 1
ListRows_AnyGrant(docs, shs, user, all, app) ==
    {d \in docs :
        /\ ~d.deleted
        /\ \/ all /\ isAdmin(user)
           \/ d.owner = user
           \/ \E s \in shs : s.document_id = d.id /\ s.username = user
        /\ app # "" => d.app = app}

\* a list query that takes all = 1 from any caller
ListRows_AllForAnyone(docs, shs, user, all, app) ==
    {d \in docs :
        /\ ~d.deleted
        /\ \/ all
           \/ d.owner = user
           \/ \E s \in shs : s.document_id = d.id /\ s.username = user /\ s.can_read
        /\ app # "" => d.app = app}

\* the rows of the list query for the caller ($all: all = 1 and an admin)
ListRows(docs, shs, user, all, app) ==
    {d \in docs :
        /\ ~d.deleted
        /\ \/ all /\ isAdmin(user)
           \/ d.owner = user
           \/ \E s \in shs : s.document_id = d.id /\ s.username = user /\ s.can_read
        /\ app # "" => d.app = app}

\* a row of the list with $full['versions'] and $full['shared_with'] (null: empty)
ListEntry(d, full) ==
    [id |-> d.id, owner |-> d.owner, app |-> d.app, title |-> d.title,
     versions |-> UNION {f.versions : f \in full},
     shared_with |-> UNION {f.shared_with : f \in full}]

ListQuery(p) ==
    /\ \E u \in Users, all \in BOOLEAN, li \in ListInputs :
          Accept(p, [Request(li[1], u, "") EXCEPT !.all = all, !.app = li[2]])
    /\ todo' = [todo EXCEPT ![p] =
          ListRows(documents, shares, req'[p].user, req'[p].all, req'[p].app)]
    /\ IF todo'[p] = {} THEN Finish(p, DocsResp({})) ELSE Goto(p, "list_full")
    /\ UNCHANGED <<store, writer, stale, room>>

\* one turn of the foreach: getDocumentFull for the next row
ListFull(p) ==
    /\ pc[p] = "list_full"
    /\ \E d \in todo[p] :
          /\ todo' = [todo EXCEPT ![p] = todo[p] \ {d}]
          /\ resp' = [resp EXCEPT ![p] =
                [DocsResp(resp[p].docs \cup
                    {ListEntry(d, getDocumentFull(documents, versions, shares, d.id))})
                 EXCEPT !.code = IF todo'[p] = {} THEN 200 ELSE 0]]
          /\ pc' = [pc EXCEPT ![p] = IF todo'[p] = {} THEN "done" ELSE "list_full"]
    /\ UNCHANGED <<store, writer, stale, req, room, nreq, outside>>

List(p) ==
    \/ ListQuery(p)
    \/ ListFull(p)

\* ---------------------------------------------------------- generate_id
\* a list with the letter o in the place of c
chars_WithO ==
    <<"o", "d", "e", "f", "h", "j", "k", "m", "n", "p", "r", "t", "v", "w", "x", "y",
      "2", "3", "4", "5", "6", "8", "9">>

\* $chars of generateRandomId
chars ==
    <<"c", "d", "e", "f", "h", "j", "k", "m", "n", "p", "r", "t", "v", "w", "x", "y",
      "2", "3", "4", "5", "6", "8", "9">>

\* the results of the calls of random_int(0, count($chars) - 1) for one id: the
\* model draws them from the streams that start at any index and advance by a
\* fixed step, so that every symbol occurs at every position
RandomStreams(steps) == [start : 0..(Len(chars) - 1), step : steps]

random_int(stream, i) == (stream.start + stream.step * i) % Len(chars)

\* generateRandomId($length) as text: one symbol per turn of the loop
generateRandomIdText(length, stream) ==
    [i \in 1..length |-> chars[random_int(stream, i - 1) + 1]]

DefaultLength == 16
MinLength == 1
MaxLength == 128

\* isset($params['length']) ? intval($params['length']) : 16; the parameter is
\* a sequence, empty when the request has none
lengthOrDefault(param) == IF Len(param) > 0 THEN param[1] ELSE DefaultLength

\* the bounds test that ends generate_id with 400 (the message is written
\* here with a plain hyphen)
InvalidLength_Below(length) == length < MinLength \/ length >= MaxLength

InvalidLength(length) == length < MinLength \/ length > MaxLength

\* some lengths around the bounds, and none
LengthInputs == {<<>>} \cup {<<n>> : n \in {-1, 0, 1, 2, 127, 128, 129}}

\* the lengths and the stream of the requests that run among the other actions
SomeLengths == {<<0>>, <<1>>}
SomeStreams == {[start |-> 0, step |-> 1]}

GenerateId(p, lengths, streams) ==
    /\ \E len \in lengths :
          Accept(p, [Request("generate_id", "", "") EXCEPT !.length = len])
    /\ IF InvalidLength(lengthOrDefault(req'[p].length))
       THEN Finish(p, ErrorResp(400, "Invalid length (1-128 allowed)"))
       ELSE \E stream \in streams :
               Finish(p, IdResp(generateRandomIdText(lengthOrDefault(req'[p].length), stream)))
    /\ UNCHANGED <<store, writer, stale, room, todo>>

\* ----------------------------------------------------------------- spec
\* the document browser as it mounts, with no grant listed
NoDoc == ""
NoClick == [kind |-> "", id |-> "", username |-> ""]
NoCall == [method |-> "", id |-> "", username |-> "", permissions |-> {}]
BrowserMounted(grants) ==
    /\ shareDoc = NoDoc
    /\ shareUsername = ""
    /\ sharePermissions = {"read"}
    /\ docList = grants
    /\ click = NoClick
    /\ issued = NoCall

\* the DocumentManagerProvider as its constructor leaves it
NoProvider == 0
NoEvent == [kind |-> "", provider |-> NoProvider, value |-> ""]
Constructed ==
    /\ wsProvider = NoProvider
    /\ live = {}
    /\ made = 0
    /\ promises = <<>>
    /\ last = NoEvent

NoFrontend == BrowserMounted({}) /\ Constructed

\* the JSON edition's file after the import: renamed, so that nothing is left
\* under its name
Imported ==
    /\ docsFile = {}
    /\ docsFileExists = FALSE
    /\ jsonDocs = [p \in Procs |-> {}]
    /\ NoFrontend

\* the store the one-time import of the JSON file leaves: nothing, or document
\* d1 of alice, of the app text, with version "1" and at most one grant for bob,
\* to read or to write
SeedDocuments ==
    {[id |-> "d1", owner |-> "alice", app |-> "text", title |-> "Untitled", deleted |-> FALSE,
      updated_at |-> 0]}
SeedVersions == {[document_id |-> "d1", version |-> "1", room_id |-> 1]}
SeedShares ==
    {{}} \cup {{[document_id |-> "d1", username |-> "bob", can_read |-> r, can_write |-> ~r]} :
                  r \in BOOLEAN}

Init ==
    /\ \/ /\ documents = {}
          /\ versions = {}
          /\ shares = {}
       \/ /\ documents = SeedDocuments
          /\ versions = SeedVersions
          /\ shares \in SeedShares
    /\ writer = NoProc
    /\ stale = [p \in Procs |-> FALSE]
    /\ pc = [p \in Procs |-> "idle"]
    /\ req = [p \in Procs |-> NoReq]
    /\ room = [p \in Procs |-> NoRoom]
    /\ todo = [p \in Procs |-> {}]
    /\ resp = [p \in Procs |-> NoResp]
    /\ nreq = 0
    /\ Imported

Next ==
    \E p \in Procs :
        \/ Create(p, FALSE)
        \/ CreateVersion(p)
        \/ Rename(p, FALSE)
        \/ Share(p, SomePerms)
        \/ Revoke(p, Ids)
        \/ Delete(p, Ids, FALSE)
        \/ Access(p)
        \/ List(p)
        \/ GenerateId(p, SomeLengths, SomeStreams)
        \/ MethodNotAllowed(p)
        \/ UnknownAction(p)
        \/ Return(p)

Spec == Init /\ [][Next]_vars

\* the requests with ill-formed parameters as well, and a running clock, on one
\* store: document d1
\* of alice with version "1", a read-only grant for alice herself, a write-only
\* grant for the admin (share does not look at who the grantee is) and a
\* read-only grant for bob
InputShares ==
    {[document_id |-> "d1", username |-> "alice", can_read |-> TRUE, can_write |-> FALSE],
     [document_id |-> "d1", username |-> "root", can_read |-> FALSE, can_write |-> TRUE],
     [document_id |-> "d1", username |-> "bob", can_read |-> TRUE, can_write |-> FALSE]}

InputInit ==
    /\ documents = SeedDocuments
    /\ versions = SeedVersions
    /\ shares = InputShares
    /\ writer = NoProc
    /\ stale = [p \in Procs |-> FALSE]
    /\ pc = [p \in Procs |-> "idle"]
    /\ req = [p \in Procs |-> NoReq]
    /\ room = [p \in Procs |-> NoRoom]
    /\ todo = [p \in Procs |-> {}]
    /\ resp = [p \in Procs |-> NoResp]
    /\ nreq = 0
    /\ Imported

InputNext ==
    \E p \in Procs :
        \/ Create(p, TRUE)
        \/ CreateVersion(p)
        \/ Rename(p, TRUE)
        \/ Share(p, PermInputs)
        \/ Revoke(p, IdInputs)
        \/ Delete(p, IdInputs, TRUE)
        \/ Access(p)
        \/ List(p)
        \/ GenerateId(p, SomeLengths, SomeStreams)
        \/ MethodNotAllowed(p)
        \/ InvalidArgument(p)
        \/ UnknownAction(p)
        \/ Return(p)

InputSpec == InputInit /\ [][InputNext]_vars

\* generate_id alone, with every length of LengthInputs and every stream
GenNext ==
    \E p \in Procs :
        \/ GenerateId(p, LengthInputs, RandomStreams({1, 5}))
        \/ Return(p)

GenSpec == Init /\ [][GenNext]_vars

\* =============================================================== claims
\* the access predicates as the specification states them
CanRead(docs, shs, docId, user) ==
    \/ isAdmin(user)
    \/ \E d \in DocRows(docs, docId) : d.owner = user
    \/ \E s \in ShareRows(shs, docId, user) : s.can_read

CanWrite(docs, shs, docId, user) ==
    \/ isAdmin(user)
    \/ \E d \in DocRows(docs, docId) : d.owner = user
    \/ \E s \in ShareRows(shs, docId, user) : s.can_write

CanManage(docs, docId, user) ==
    \/ isAdmin(user)
    \/ \E d \in DocRows(docs, docId) : d.owner = user

\* request p arrives in this step, for one of the actions
Arrived(p, actions) == pc[p] = "idle" /\ req'[p].action \in actions

\* request p arrives in this step with the method of its action
Accepted(p, actions) ==
    Arrived(p, actions) /\ req'[p].method = RequiredMethod(req'[p].action)

Refused(p, r) == resp'[p] = r /\ pc'[p] = "done" /\ store' = store

SamePair(v, w) == v.document_id = w.document_id /\ v.version = w.version

\* C1: two create_version requests for the same document and version, both
\* authorized and neither hitting a room or foreign key failure, both answer 200
\* with the same room, and one row is stored for the pair.  (Violated: the
\* request that loses the race answers 500 "database is locked".)
C1_BothGetSameRoom ==
    \A p, q \in Procs :
        ( /\ p # q
          /\ pc[p] = "done" /\ pc[q] = "done"
          /\ req[p].action = "create_version" /\ req[q].action = "create_version"
          /\ req[p].method = "POST" /\ req[q].method = "POST"
          /\ req[p].id = req[q].id /\ req[p].version = req[q].version
          /\ resp[p].code # 403 /\ resp[q].code # 403
          /\ resp[p].error \notin {ErrRoomTaken, ErrForeignKey}
          /\ resp[q].error \notin {ErrRoomTaken, ErrForeignKey} )
        => /\ resp[p].code = 200 /\ resp[q].code = 200
           /\ resp[p].room = resp[q].room
           /\ Cardinality(VersionRows(versions, req[p].id, req[p].version)) = 1

\* C2: of two create requests for the same id of which one answered with the
\* created document, the other answered 409 "Document already exists", and one
\* document row is stored.  (Violated: the loser answers 500 "database is locked".)
C2_OneCreatedOneConflict ==
    \A p, q \in Procs :
        ( /\ p # q
          /\ pc[p] = "done" /\ pc[q] = "done"
          /\ req[p].action = "create" /\ req[q].action = "create"
          /\ req[p].method = "POST" /\ req[q].method = "POST"
          /\ req[p].id = req[q].id
          /\ resp[p].code = 200
          /\ resp[q].error # ErrRoomTaken )
        => /\ resp[q] = ErrorResp(409, "Document already exists")
           /\ Cardinality(DocRows(documents, req[p].id)) = 1

\* C3: after every step no two version rows of different (document, version)
\* pairs hold the same room, deleted documents included, and a room held before
\* the step is held after it by no other pair.
C3_RoomNeverShared ==
    [][ /\ \A v, w \in versions' : v.room_id = w.room_id => SamePair(v, w)
        /\ \A v \in versions, w \in versions' : v.room_id = w.room_id => SamePair(v, w)
      ]_vars

\* a create drew the room of a soft-deleted document's version and was refused
C3_Witness ==
    \E v \in versions, p \in Procs :
        /\ \E d \in DocRows(documents, v.document_id) : d.deleted
        /\ pc[p] = "done" /\ req[p].action = "create"
        /\ req[p].id # v.document_id
        /\ room[p] = v.room_id
        /\ resp[p] = ErrorResp(500, ErrRoomTaken)

\* C4: no step removes a version row or changes its room, and create_version on
\* an existing mapping answers with the stored room and inserts nothing.
C4_MappingImmutable ==
    [][ /\ \A v \in versions : v \in versions'
        /\ \A p \in Procs :
              ( /\ pc[p] = "cv_select" /\ pc'[p] # "cv_select"
                /\ VersionRows(versions, req[p].id, req'[p].version) # {} )
              => /\ pc'[p] = "done"
                 /\ resp'[p].code = 200
                 /\ \E v \in VersionRows(versions, req[p].id, req'[p].version) :
                       resp'[p].room = v.room_id
                 /\ versions' = versions
      ]_vars

\* create_version answered with the stored room of a document renamed before
C4_Witness ==
    \E p \in Procs :
        /\ pc[p] = "done" /\ req[p].action = "create_version"
        /\ resp[p].code = 200 /\ resp[p].room # NoRoom
        /\ room[p] = NoRoom
        /\ \E d \in DocRows(documents, req[p].id) : d.title = "T"

\* C5: a create for an id whose document is soft-deleted answers 409 "Document
\* already exists" and leaves the three tables as they were.
C5_NoCreateOverDeleted ==
    [][ \A p \in Procs :
           ( /\ Accepted(p, {"create"})
             /\ \E d \in DocRows(documents, req'[p].id) : d.deleted )
           => Refused(p, ErrorResp(409, "Document already exists"))
      ]_vars

\* a create answered 409 for the id of a soft-deleted document
C5_Witness ==
    \E p \in Procs :
        /\ pc[p] = "done" /\ req[p].action = "create"
        /\ resp[p] = ErrorResp(409, "Document already exists")
        /\ \E d \in DocRows(documents, req[p].id) : d.deleted
        /\ \A q \in Procs \ {p} : pc[q] = "idle"

\* C6: access answers with a room and permissions only for a document that is
\* not deleted and that the caller can read: an admin, the owner, or a grantee
\* whose grant has can_read.
C6_AccessOnlyReaders ==
    [][ \A p \in Procs :
           (Accepted(p, {"access"}) /\ resp'[p].code = 200)
           => /\ LiveRows(documents, req'[p].id) # {}
              /\ CanRead(documents, shares, req'[p].id, req'[p].user)
      ]_vars

\* access refused a grantee whose grant is write-only
C6_Witness ==
    \E p \in Procs :
        /\ pc[p] = "done" /\ req[p].action = "access"
        /\ resp[p] = ErrorResp(403, "Access denied")
        /\ \E s \in ShareRows(shares, req[p].id, req[p].user) : s.can_write /\ ~s.can_read

\* C7: create_version goes past its authorization only for a caller who can
\* write (an admin, the owner, or a grantee whose grant has can_write); any other
\* caller is answered 403 and no version row is inserted; only a request past
\* the authorization answers 200 or inserts a version row.
CvStages == {"cv_select", "cv_insert", "cv_commit"}

C7_CreateVersionOnlyWriters ==
    [][ \A p \in Procs :
           /\ Accepted(p, {"create_version"})
                => IF CanWrite(documents, shares, req'[p].id, req'[p].user)
                   THEN TRUE
                   ELSE Refused(p, ErrorResp(403, "Access denied or not found"))
           /\ (pc'[p] \in CvStages /\ pc[p] \notin CvStages)
                => /\ pc[p] = "idle"
                   /\ CanWrite(documents, shares, req'[p].id, req'[p].user)
           /\ (req'[p].action = "create_version" /\ resp'[p].code = 200 /\ resp[p].code # 200)
                => pc[p] \in CvStages
      ]_vars

\* create_version refused a grantee whose grant is read-only
C7_Witness ==
    \E p \in Procs :
        /\ pc[p] = "done" /\ req[p].action = "create_version"
        /\ resp[p] = ErrorResp(403, "Access denied or not found")
        /\ \E s \in ShareRows(shares, req[p].id, req[p].user) : s.can_read /\ ~s.can_write
        /\ \E d \in LiveRows(documents, req[p].id) : TRUE

ManageStages == {"share_validate", "share_upsert", "revoke_delete", "delete_update"}

C9_ManageOnlyOwnerOrAdmin ==
    [][ /\ \A p \in Procs :
              /\ ( /\ Accepted(p, {"share", "revoke", "delete"})
                   /\ ~CanManage(documents, req'[p].id, req'[p].user) )
                   => Refused(p, ErrorResp(404, "Not found or not owner"))
              /\ (pc'[p] \in ManageStages /\ pc[p] \notin ManageStages)
                   => /\ pc[p] = "idle"
                      /\ CanManage(documents, req'[p].id, req'[p].user)
        /\ shares' # shares
              => \E p \in Procs : /\ pc[p] \in {"share_upsert", "revoke_delete"}
                                  /\ pc'[p] # pc[p]
        /\ \A d \in documents, e \in documents' :
              (d.id = e.id /\ d.deleted # e.deleted)
              => \E p \in Procs : /\ pc[p] = "delete_update" /\ pc'[p] = "done"
                                  /\ req[p].id = d.id
      ]_vars

\* share, revoke or delete refused a grantee who holds read and write
C9_Witness ==
    \E p \in Procs :
        /\ pc[p] = "done" /\ req[p].action \in {"share", "revoke", "delete"}
        /\ resp[p] = ErrorResp(404, "Not found or not owner")
        /\ \E d \in LiveRows(documents, req[p].id) : d.owner # req[p].user
        /\ \E s \in ShareRows(shares, req[p].id, req[p].user) : s.can_read /\ s.can_write

\* C10: a refusal (403 or 404) answered to a caller who is no admin equals, in
\* status code and error message, the answer to the same request by the same
\* caller for an id no document has.  (Violated: access answers 403 "Access
\* denied" for a document the caller may not read and 404 "Not found" for none.)
C10_UniformRefusal ==
    \A p, q \in Procs :
        ( /\ p # q
          /\ pc[p] = "done" /\ pc[q] = "done"
          /\ req[p].action = req[q].action
          /\ req[p].action \in {"access", "rename", "share", "revoke", "delete", "create_version"}
          /\ req[p].method = RequiredMethod(req[p].action)
          /\ req[q].method = RequiredMethod(req[q].action)
          /\ req[p].user = req[q].user /\ ~isAdmin(req[p].user)
          /\ req[p].version = req[q].version
          /\ DocRows(documents, req[q].id) = {}
          /\ resp[p].code \in {403, 404} )
        => /\ resp[p].code = resp[q].code
           /\ resp[p].error = resp[q].error

\* C11: the shares hold at most one row per (document, username), and the
\* upsert of a share leaves for its (document, username) exactly the flags of
\* the permissions it was sent (can_read iff 'read' is listed, can_write iff
\* 'write' is), whatever row was there before, and no other row changed.
SameGrantee(s, t) == s.document_id = t.document_id /\ s.username = t.username

C11_ShareReplaces ==
    [][ /\ \A s, t \in shares' : SameGrantee(s, t) => s = t
        /\ \A p \in Procs :
              (pc[p] = "share_upsert" /\ pc'[p] = "share_respond")
              => /\ ShareRows(shares', req[p].id, req'[p].username) =
                       {[document_id |-> req[p].id, username |-> req'[p].username,
                         can_read |-> \E i \in 1..Len(req[p].permissions) :
                                          req[p].permissions[i] = "read",
                         can_write |-> \E i \in 1..Len(req[p].permissions) :
                                           req[p].permissions[i] = "write"]}
                 /\ \A s \in shares :
                       (s.document_id # req[p].id \/ s.username # req'[p].username)
                       => s \in shares'
      ]_vars

\* share 'read' answered with the grant [read], then share 'write' for the same
\* document and user answered with the grant [write], and the row is write-only
C11_Witness ==
    \E p, q \in Procs, g \in Grantees :
        /\ p # q
        /\ pc[p] = "done" /\ pc[q] = "done"
        /\ req[p].action = "share" /\ req[q].action = "share"
        /\ req[p].id = req[q].id
        /\ req[p].username = g /\ req[q].username = g
        /\ req[q].permissions = <<"read">> /\ req[p].permissions = <<"write">>
        /\ \E d \in resp[q].docs : <<g, {"read"}>> \in d.shared_with
        /\ \E d \in resp[p].docs : <<g, {"write"}>> \in d.shared_with
        /\ ShareRows(shares, req[p].id, g) =
              {[document_id |-> req[p].id, username |-> g,
                can_read |-> FALSE, can_write |-> TRUE]}

\* request p took a step
Moved(p) == <<pc[p], req[p], resp[p], room[p], todo[p]>> # <<pc'[p], req'[p], resp'[p], room'[p], todo'[p]>>

\* C12: no step of a list, list_by_app, access or generate_id request, whatever
\* its caller and arguments, changes a row of documents, document_versions or
\* document_shares; an access for a version without a mapping leaves it unmapped.
ReadOnlyActions == {"list", "list_by_app", "access", "generate_id"}

C12_ReadOnlyActions ==
    [][ \A p \in Procs :
           (Moved(p) /\ (req[p].action \in ReadOnlyActions \/ req'[p].action \in ReadOnlyActions))
           => store' = store
      ]_vars

\* an access of a readable document answered for a version that has no mapping,
\* and the version still has none
C12_Witness ==
    \E p \in Procs :
        /\ pc[p] = "done" /\ req[p].action = "access" /\ resp[p].code = 200
        /\ resp[p].room = NoRoom
        /\ LiveRows(documents, req[p].id) # {}
        /\ VersionRows(versions, req[p].id, "1") # {}
        /\ req[p].version = "2"
        /\ VersionRows(versions, req[p].id, "2") = {}

\* C13: an access of a document that is not deleted and that the caller may
\* read, for a version (the one sent, "1" when none is sent) that has no room,
\* answers 404.  (Violated: it answers 200 with the room null.)
C13_AccessMissingVersion ==
    [][ \A p \in Procs :
           ( /\ Accepted(p, {"access"})
             /\ LiveRows(documents, req'[p].id) # {}
             /\ CanRead(documents, shares, req'[p].id, req'[p].user)
             /\ VersionRows(versions, req'[p].id,
                            IF req'[p].version = Omitted THEN "1" ELSE req'[p].version) = {} )
           => resp'[p].code = 404
      ]_vars

\* C14: while a create without a version is done, answered with the document
\* and its room r of version "1", an access of the same id by the same caller
\* without a version, the document not deleted, answers room r and exactly the
\* permissions read and write.
C14_AccessAfterCreate ==
    [][ \A p, q \in Procs :
           ( /\ pc[p] = "done" /\ req[p].action = "create" /\ resp[p].code = 200
             /\ req[p].version = Omitted
             /\ Accepted(q, {"access"})
             /\ req'[q].id = req[p].id /\ req'[q].user = req[p].user
             /\ req'[q].version = Omitted
             /\ LiveRows(documents, req[p].id) # {} )
           => \A d \in resp[p].docs : \A m \in d.versions :
                 m[1] = "1" => resp'[q] = RoomResp(m[2], {"read", "write"})
      ]_vars

\* a user who is no admin created a document and then accessed it
C14_Witness ==
    \E p, q \in Procs :
        /\ pc[p] = "done" /\ req[p].action = "create" /\ resp[p].code = 200
        /\ pc[q] = "done" /\ req[q].action = "access" /\ resp[q].code = 200
        /\ req[q].id = req[p].id /\ req[q].user = req[p].user /\ ~isAdmin(req[p].user)
        /\ req[p].version = Omitted /\ req[q].version = Omitted
        /\ resp[q].perms = {"read", "write"}
        /\ \E d \in resp[p].docs : <<"1", resp[q].room>> \in d.versions

\* C15: the UPDATE of a delete sets the deleted flag of the document, and its
\* updated_at, and changes no other row or column; a list or list_by_app issued while the document is
\* deleted does not hold it, whoever asks; an access to it answers 404 "Not
\* found"; its version rows and share rows stay as they were.
ListActions == {"list", "list_by_app"}

C15_DeleteOnlyHides ==
    [][ \A p \in Procs :
           /\ (pc[p] = "delete_update" /\ pc'[p] = "done")
                => /\ versions' = versions /\ shares' = shares
                   /\ documents' = {IF d.id = req[p].id
                                    THEN [d EXCEPT !.deleted = TRUE, !.updated_at = time(FALSE)]
                                    ELSE d : d \in documents}
                   /\ resp'[p] = SuccessResp
           /\ Accepted(p, ListActions)
                => \A d \in documents : d.deleted =>
                      /\ \A e \in todo'[p] : e.id # d.id
                      /\ \A e \in resp'[p].docs : e.id # d.id
           /\ (pc[p] = "list_full")
                => \A e \in resp'[p].docs :
                      (\E d \in todo[p] : d.id = e.id) \/ e \in resp[p].docs
           /\ ( /\ Accepted(p, {"access"})
                /\ \E d \in DocRows(documents, req'[p].id) : d.deleted )
                => Refused(p, ErrorResp(404, "Not found"))
      ]_vars

\* the owner deleted a shared document and was then answered a list without it,
\* while its version and its grant are still stored
C15_Witness ==
    \E p, q \in Procs :
        /\ pc[p] = "done" /\ req[p].action = "delete" /\ resp[p] = SuccessResp
        /\ pc[q] = "done" /\ req[q].action = "list" /\ resp[q].code = 200
        /\ \E d \in DocRows(documents, req[p].id) : d.deleted /\ d.owner = req[q].user
        /\ \A e \in resp[q].docs : e.id # req[p].id
        /\ \E v \in versions : v.document_id = req[p].id
        /\ \E t \in shares : t.document_id = req[p].id

\* C16: a restore of a deleted document by its owner or an admin leaves the
\* document not deleted, with its version rows and share rows as they were.
\* (Violated: the switch has no case restore; the request answers 400 "Unknown
\* action" and the document stays deleted.)
C16_RestoreRevives ==
    [][ \A p \in Procs :
           ( /\ Arrived(p, {"restore"})
             /\ \E d \in DocRows(documents, req'[p].id) : d.deleted
             /\ CanManage(documents, req'[p].id, req'[p].user) )
           => /\ LiveRows(documents', req'[p].id) # {}
              /\ versions' = versions /\ shares' = shares
      ]_vars

\* C17: a generate_id with length L (16 when none is sent) answers 200 with an
\* id of exactly L characters if 1 <= L <= 128, and otherwise answers 400
\* "Invalid length (1-128 allowed)" with no id.
C17_LengthBounds ==
    \A p \in Procs :
        (pc[p] = "done" /\ req[p].action = "generate_id" /\ resp[p].code # 405)
        => LET L == IF req[p].length = <<>> THEN 16 ELSE req[p].length[1]
           IN IF 1 <= L /\ L <= 128
              THEN resp[p].code = 200 /\ Len(resp[p].id) = L
              ELSE resp[p] = ErrorResp(400, "Invalid length (1-128 allowed)")

\* length 128 answered with an id of 128 characters, length 129 refused
C17_Witness ==
    \E p, q \in Procs :
        /\ pc[p] = "done" /\ req[p].action = "generate_id"
        /\ pc[q] = "done" /\ req[q].action = "generate_id"
        /\ req[p].length = <<128>> /\ Len(resp[p].id) = 128
        /\ req[q].length = <<129>> /\ resp[q].code = 400

\* C18 as claimed: the characters of the generated ids come from an alphabet of
\* 21 symbols, so the ids at hand show at most 21 different characters.
\* (Violated: an id of 128 characters shows 23.)
IdSymbols == UNION {{resp[p].id[i] : i \in 1..Len(resp[p].id)} : p \in Procs}

C18_Alphabet21 == Cardinality(IdSymbols) <= 21

\* C18 amended: every character of every generated id is one of the 23 symbols
\* c d e f h j k m n p r t v w x y 2 3 4 5 6 8 9, and none is one of
\* 0 O 1 l i a g o s u z b q.
SafeAlphabet ==
    {"c", "d", "e", "f", "h", "j", "k", "m", "n", "p", "r", "t", "v", "w", "x", "y",
     "2", "3", "4", "5", "6", "8", "9"}

Confusable == {"0", "O", "1", "l", "i", "a", "g", "o", "s", "u", "z", "b", "q"}

C18_Alphabet23 ==
    /\ IdSymbols \subseteq SafeAlphabet
    /\ IdSymbols \cap Confusable = {}

\* one id shows all 23 symbols
C18_Witness ==
    \E p \in Procs :
        /\ pc[p] = "done" /\ req[p].action = "generate_id"
        /\ {resp[p].id[i] : i \in 1..Len(resp[p].id)} = SafeAlphabet
        /\ Cardinality(SafeAlphabet) = 23

\* C19: a create, rename, share, revoke, delete or create_version that arrives
\* with a method other than POST is answered 405 in its first step, with no row
\* changed; and a row changes only in a step of a request that came by POST.
MutatingActions == {"create", "rename", "share", "revoke", "delete", "create_version"}

C19_PostOnly ==
    [][ \A p \in Procs :
           /\ (Arrived(p, MutatingActions) /\ req'[p].method # "POST")
                => /\ pc'[p] = "done" /\ resp'[p].code = 405
                   /\ store' = store
           /\ (Moved(p) /\ store' # store) => req[p].method = "POST"
      ]_vars

\* a delete sent by GET was answered 405, the seeded document not deleted
C19_Witness ==
    \E p \in Procs :
        /\ pc[p] = "done" /\ req[p].action = "delete" /\ req[p].method = "GET"
        /\ resp[p] = ErrorResp(405, "Method Not Allowed. Use POST for this action.")
        /\ \E d \in documents : ~d.deleted

\* C20: the query of a list or list_by_app sent with all = 1 by a caller who is
\* no admin yields the rows it yields without all: the documents not deleted,
\* of the app asked for, that the caller owns or holds a grant to read; for an
\* admin, all = 1 yields every document not deleted of the app asked for, and
\* without all an admin is served like any caller.
C20_AllOnlyForAdmins ==
    [][ \A p \in Procs :
           Accepted(p, ListActions)
           => LET u == req'[p].user
                  mine == {d \in documents :
                              /\ ~d.deleted
                              /\ req'[p].app # "" => d.app = req'[p].app
                              /\ \/ d.owner = u
                                 \/ \E t \in ShareRows(shares, d.id, u) : t.can_read}
                  every == {d \in documents :
                              /\ ~d.deleted
                              /\ req'[p].app # "" => d.app = req'[p].app}
              IN /\ (~isAdmin(u) \/ ~req'[p].all) => todo'[p] = mine
                 /\ (isAdmin(u) /\ req'[p].all) => todo'[p] = every
                 /\ todo'[p] = {} => resp'[p] = DocsResp({})
      ]_vars

\* a list with all = 1 by a user who is no admin was answered with a document
\* and without another, not deleted, that the user may not read
C20_Witness ==
    \E p \in Procs :
        /\ pc[p] = "done" /\ req[p].action \in ListActions /\ req[p].all
        /\ ~isAdmin(req[p].user)
        /\ resp[p].code = 200 /\ resp[p].docs # {}
        /\ \E d \in documents :
              /\ ~d.deleted
              /\ ~CanRead(documents, shares, d.id, req[p].user)
              /\ \A e \in resp[p].docs : e.id # d.id

\* C21 as claimed: the query of a list yields exactly the documents not
\* deleted, of the app asked for, that the caller can read: an admin, the owner,
\* or a grantee whose grant has can_read.  (Violated: an admin who does not send
\* all = 1 is not served the documents of others.)
C21_ListAllReadable ==
    [][ \A p \in Procs :
           Accepted(p, ListActions)
           => {d.id : d \in todo'[p]} =
                 {d.id : d \in {e \in documents :
                                   /\ ~e.deleted
                                   /\ req'[p].app # "" => e.app = req'[p].app
                                   /\ CanRead(documents, shares, e.id, req'[p].user)}}
      ]_vars

\* C21 amended: a document is in the rows of a list query if and only if it is
\* not deleted, is of the app asked for, and the caller owns it, or holds a
\* grant of it with can_read, or is an admin who sent all = 1; so every row can be
\* read by the caller, and of the documents the caller can read only an admin's
\* request without all = 1 leaves any out.
C21_ListExactlyVisible ==
    [][ \A p \in Procs :
           Accepted(p, ListActions)
           => /\ todo'[p] \subseteq documents
              /\ \A d \in documents :
                    d \in todo'[p] <=>
                       /\ ~d.deleted
                       /\ req'[p].app = "" \/ d.app = req'[p].app
                       /\ \/ d.owner = req'[p].user
                          \/ \E t \in shares : /\ t.document_id = d.id
                                                /\ t.username = req'[p].user
                                                /\ t.can_read
                          \/ isAdmin(req'[p].user) /\ req'[p].all
              /\ \A d \in todo'[p] : CanRead(documents, shares, d.id, req'[p].user)
      ]_vars

\* a user who holds a write-only grant of one document and owns another was
\* answered a list with the own document alone
C21_Witness ==
    \E p \in Procs :
        /\ pc[p] = "done" /\ req[p].action \in ListActions /\ resp[p].code = 200
        /\ ~isAdmin(req[p].user)
        /\ \E d \in documents : d.owner = req[p].user /\ \E e \in resp[p].docs : e.id = d.id
        /\ \E d \in documents :
              /\ ~d.deleted
              /\ \E t \in ShareRows(shares, d.id, req[p].user) : t.can_write /\ ~t.can_read
              /\ \A e \in resp[p].docs : e.id # d.id

\* C22: a revoke by the owner of a live document or by an admin goes through
\* whether or not the grant exists: its DELETE leaves no grant of (id, username),
\* leaves every other grant and every document and version as it was, so that a
\* second revoke changes nothing, and the request then answers 200.
C22_RevokeIdempotent ==
    [][ \A p \in Procs :
           /\ Accepted(p, {"revoke"})
              /\ \/ isAdmin(req'[p].user)
                 \/ \E d \in LiveRows(documents, req'[p].id) : d.owner = req'[p].user
              => pc'[p] = "revoke_delete"
           /\ pc[p] = "revoke_delete" /\ pc'[p] # pc[p]
              => /\ pc'[p] = "revoke_respond"
                 /\ ShareRows(shares', req[p].id, req'[p].username) = {}
                 /\ shares' = {t \in shares : ~(/\ t.document_id = req[p].id
                                                 /\ t.username = req'[p].username)}
                 /\ ShareRows(shares, req[p].id, req'[p].username) = {} => shares' = shares
                 /\ documents' = documents /\ versions' = versions
           /\ pc[p] = "revoke_respond" /\ pc'[p] # pc[p]
              => pc'[p] = "done" /\ resp'[p].code = 200 /\ store' = store
      ]_vars

\* two revokes of the same grant have both answered 200 with the document and
\* no grant in it: one of them found no grant to delete
C22_Witness ==
    \E p, q \in Procs :
        /\ p # q
        /\ \A r \in {p, q} :
              /\ pc[r] = "done" /\ req[r].action = "revoke" /\ resp[r].code = 200
              /\ \E e \in resp[r].docs : e.shared_with = {}
        /\ req[p].id = req[q].id /\ req[p].username = req[q].username
        /\ ShareRows(shares, req[p].id, req[p].username) = {}

\* the actions that take an id, and those that take a version label
IdActions == {"create", "rename", "share", "revoke", "delete", "access", "create_version"}
VersionActions == {"create", "access", "create_version"}

\* the text is one or more characters of the class
Matches(class, t) == Len(t) >= 1 /\ \A i \in 1..Len(t) : t[i] \in class

\* C23: a request for an action that takes an id, sent with an id that is not
\* one or more of the characters A-Z a-z 0-9 _ . -, and a request for an action
\* that takes a version, sent with a label that is not one or more of
\* A-Z a-z 0-9 ., is answered 400 at once and the store is left as it was.
C23_InvalidRejected ==
    [][ \A p \in Procs :
           /\ Arrived(p, IdActions)
           /\ req'[p].method = RequiredMethod(req'[p].action)
           /\ \/ ~Matches(IdClass, Text[req'[p].id])
              \/ /\ req'[p].action \in VersionActions
                 /\ req'[p].version # Omitted
                 /\ ~Matches(VersionClass, Text[req'[p].version])
           => /\ pc'[p] = "done"
              /\ resp'[p].code = 400
              /\ store' = store
      ]_vars

\* C24: a share that passed the owner check and whose permissions hold an
\* element other than "read" and "write" (the empty string of an empty list
\* among them) is answered 400 and leaves the grants, and the rest of the
\* store, as they were.
C24_InvalidPermissionRejected ==
    [][ \A p \in Procs :
           /\ pc[p] = "share_validate" /\ pc'[p] # pc[p]
           /\ \E i \in 1..Len(req'[p].permissions) :
                 req'[p].permissions[i] \notin {"read", "write"}
           => /\ pc'[p] = "done"
              /\ resp'[p].code = 400
              /\ shares' = shares
              /\ store' = store
      ]_vars

\* an empty list and a list with one good and one bad element were both refused
C24_Witness ==
    \E p, q \in Procs :
        /\ pc[p] = "done" /\ req[p].action = "share" /\ req[p].permissions = <<"">>
        /\ resp[p].code = 400
        /\ pc[q] = "done" /\ req[q].action = "share"
        /\ req[q].permissions = <<"read", "admin">>
        /\ resp[q] = ErrorResp(400, "Invalid permission: admin")
        /\ shares = InputShares

\* C25: a rename, share, revoke, access or create_version of a document that
\* is soft-deleted is refused with 403 or 404 for every caller, an admin too,
\* and changes nothing in the store.
C25_DeletedDocRefuses ==
    [][ \A p \in Procs :
           /\ Accepted(p, {"rename", "share", "revoke", "access", "create_version"})
           /\ \E d \in DocRows(documents, req'[p].id) : d.deleted
           => /\ pc'[p] = "done"
              /\ resp'[p].code \in {403, 404}
              /\ store' = store
      ]_vars

\* C26: a rename, share, revoke, delete or create_version of an id that no
\* document row carries is refused with 403 or 404 for every caller, an admin
\* too, and changes nothing in the store.
C26_MissingDocRefuses ==
    [][ \A p \in Procs :
           /\ Accepted(p, {"rename", "share", "revoke", "delete", "create_version"})
           /\ req'[p].id \in Ids
           /\ DocRows(documents, req'[p].id) = {}
           => /\ pc'[p] = "done"
              /\ resp'[p].code \in {403, 404}
              /\ store' = store
      ]_vars

\* the statement of request p that writes its mutation runs in this step
Mutates(p) ==
    \/ pc[p] = "rename_update" /\ pc'[p] = "rename_respond"
    \/ pc[p] = "share_upsert" /\ pc'[p] = "share_respond"
    \/ pc[p] = "revoke_delete" /\ pc'[p] = "revoke_respond"
    \/ pc[p] = "delete_update" /\ pc'[p] = "done"
    \/ pc[p] = "cv_commit" /\ pc'[p] = "done"

\* C27: the statement that writes a rename, share, revoke, delete or
\* create_version, when it changes the store, leaves the updated_at of the
\* document at the time of the write, so that it is never older than the last
\* mutation.
C27_MutationSetsUpdatedAt ==
    [][ \A p \in Procs :
           Mutates(p) /\ store' # store
           => \A d \in DocRows(documents', req[p].id) : d.updated_at = nreq'
      ]_vars

\* the upsert of share request p has run and its response is not yet collected
Upserted(p) ==
    /\ req[p].action = "share"
    /\ \/ pc[p] = "share_respond"
       \/ pc[p] = "done" /\ resp[p].code = 200

\* C28: when two shares for the same document and user, with different
\* permissions, have both written, the grant of that user is one row, and its
\* flags are those of one of the two requests: never can_read of one and
\* can_write of the other.
C28_ConcurrentShareNoMix ==
    \A p, q \in Procs :
        /\ p # q /\ Upserted(p) /\ Upserted(q)
        /\ SameGrantee(ShareRow(req[p]), ShareRow(req[q]))
        /\ ShareRow(req[p]) # ShareRow(req[q])
        => /\ ShareRows(shares, req[p].id, req[p].username) # {}
           /\ ShareRows(shares, req[p].id, req[p].username)
                 \subseteq {ShareRow(req[p]), ShareRow(req[q])}
           /\ Cardinality(ShareRows(shares, req[p].id, req[p].username)) = 1

\* a share for read alone and a share for write alone, of the same document to
\* the same user, have both written and neither has answered yet
C28_Witness ==
    \E p, q \in Procs :
        /\ p # q /\ SameGrantee(ShareRow(req[p]), ShareRow(req[q]))
        /\ req[p].action = "share" /\ req[q].action = "share"
        /\ pc[p] = "share_respond" /\ pc[q] = "share_respond"
        /\ req[p].permissions = <<"read">> /\ req[q].permissions = <<"write">>
        /\ ShareRows(shares, req[p].id, req[p].username) \in
              {{ShareRow(req[p])}, {ShareRow(req[q])}}

\* C29: an access answered 200 carries read and write for the owner and for an
\* admin, whatever grant row they have, and for anyone else the flags of their
\* grant row and nothing more.
C29_AccessPermissions ==
    [][ \A p \in Procs :
           Accepted(p, {"access"}) /\ resp'[p].code = 200
           => IF \/ isAdmin(req'[p].user)
                 \/ \E d \in DocRows(documents, req'[p].id) : d.owner = req'[p].user
              THEN resp'[p].perms = {"read", "write"}
              ELSE /\ ShareRows(shares, req'[p].id, req'[p].user) # {}
                   /\ \A t \in ShareRows(shares, req'[p].id, req'[p].user) :
                         resp'[p].perms = SharePerms(t)
      ]_vars

\* the owner, whose own grant is read-only, was answered read and write, and a
\* grantee with a read-only grant was answered read alone
C29_Witness ==
    \E p, q \in Procs :
        /\ pc[p] = "done" /\ req[p].action = "access" /\ resp[p].code = 200
        /\ \E d \in LiveRows(documents, req[p].id) : d.owner = req[p].user
        /\ \E t \in ShareRows(shares, req[p].id, req[p].user) : t.can_read /\ ~t.can_write
        /\ resp[p].perms = {"read", "write"}
        /\ pc[q] = "done" /\ req[q].action = "access" /\ resp[q].code = 200
        /\ req[q].id = req[p].id
        /\ ~isAdmin(req[q].user) /\ req[q].user # req[p].user
        /\ \E t \in ShareRows(shares, req[q].id, req[q].user) : t.can_read /\ ~t.can_write
        /\ resp[q].perms = {"read"}

\* C30: in every state each document row has at least one version row: the
\* document row and the version row of a create are committed together or not
\* at all.
C30_DocumentHasVersion ==
    \A d \in documents : \E v \in versions : v.document_id = d.id

\* one create has committed its document with the version row of its room, and
\* another, whose version insert failed on the room, has left no document row
C30_Witness ==
    \E p, q \in Procs :
        /\ pc[p] = "done" /\ req[p].action = "create" /\ resp[p].code = 200
        /\ DocRows(documents, req[p].id) # {}
        /\ CreateVersionRow(req[p], room[p]) \in versions
        /\ pc[q] = "done" /\ req[q].action = "create"
        /\ resp[q] = ErrorResp(500, ErrRoomTaken)
        /\ DocRows(documents, req[q].id) = {}
        /\ \A v \in versions : v.document_id # req[q].id

\* ======================================================= the JSON edition
\* congruum-doc-manager.php keeps the documents in one file.  Every request
\* is a GET, reads the whole file before the switch, and answers its errors
\* with status 200.  A document is [id, owner, tool, title, versions,
\* shared_with], versions a set of <<version, room>> and shared_with a set of
\* <<username, permissions>>, the permissions a set of strings.
JsonActions ==
    {"create", "list", "list_by_tool", "rename", "share", "revoke", "delete", "access",
     "get_room"}
JsonTools == {"text"}
JsonPerms == {<<"read">>, <<"write">>}

JsonError(error) == ErrorResp(200, error)

\* json_decode(file_get_contents(DOCS_FILE), true) ?: [], or [] without a file
readDocs == IF docsFileExists THEN docsFile ELSE {}

\* a write that keeps the documents of the file which the argument has not
writeDocs_KeepOthers(ds) ==
    /\ docsFile' = ds \cup {d \in docsFile : \A e \in ds : e.id # d.id}
    /\ docsFileExists' = TRUE

\* file_put_contents(DOCS_FILE, json_encode($docs)): the file is the argument
writeDocs(ds) ==
    /\ docsFile' = ds
    /\ docsFileExists' = TRUE

\* the empty set stands for null
getDocById(id, ds) == {d \in ds : d.id = id}

hasAccess(doc, user) ==
    \/ doc.owner = user
    \/ isAdmin(user)
    \/ \E s \in doc.shared_with : s[1] = user

getUserPermissions(doc, user) ==
    IF doc.owner = user \/ isAdmin(user) THEN {"read", "write"}
    ELSE IF \E s \in doc.shared_with : s[1] = user
         THEN (CHOOSE s \in doc.shared_with : s[1] = user)[2]
         ELSE {}

\* the rooms of the file, of the documents read and of the answers
JsonRoomsInUse ==
    ({v[2] : v \in UNION {d.versions :
                            d \in docsFile \cup UNION {jsonDocs[q] : q \in Procs}}}
        \cup {resp[q].room : q \in Procs}) \ {NoRoom}

\* generateRoomId: any token, and nothing looks whether it is taken.  The
\* tokens are interchangeable, so a draw is a room in use or the first that
\* is not.
generateRoomId ==
    JsonRoomsInUse
        \cup {r \in Rooms \ JsonRoomsInUse : \A t \in Rooms \ JsonRoomsInUse : r <= t}

\* the fields of the permissions parameter
Fields(perms) == {perms[i] : i \in DOMAIN perms}

\* the room of a version of a document, NoRoom for a version not set
VersionRoom(doc, version) ==
    IF \E v \in doc.versions : v[1] = version
    THEN (CHOOSE v \in doc.versions : v[1] = version)[2]
    ELSE NoRoom

\* the requests of the JSON edition
JsonRequests ==
    {[Request("create", u, i) EXCEPT !.version = v, !.title = t, !.app = a] :
        u \in Users, i \in Ids, v \in CreateVersions, t \in CreateTitles, a \in JsonTools}
    \cup {[Request("list", u, "") EXCEPT !.all = b] : u \in Users, b \in BOOLEAN}
    \cup {[Request("list_by_tool", u, "") EXCEPT !.app = a] : u \in Users, a \in JsonTools}
    \cup {[Request("rename", u, i) EXCEPT !.title = t] :
            u \in Users, i \in Ids, t \in RenameTitles}
    \cup {[Request("share", u, i) EXCEPT !.username = g, !.permissions = ps] :
            u \in Users, i \in Ids, g \in Grantees, ps \in JsonPerms}
    \cup {[Request("revoke", u, i) EXCEPT !.username = g] :
            u \in Users, i \in Ids, g \in Grantees}
    \cup {Request("delete", u, i) : u \in Users, i \in Ids}
    \cup {[Request("access", u, i) EXCEPT !.version = v] :
            u \in Users, i \in Ids, v \in AccessVersions}
    \cup {[Request("get_room", u, i) EXCEPT !.version = v] :
            u \in Users, i \in Ids, v \in Versions}

\* $docs = readDocs(), ahead of the switch
JsonRead(p, r) ==
    /\ req' = [req EXCEPT ![p] = r]
    /\ jsonDocs' = [jsonDocs EXCEPT ![p] = readDocs]
    /\ pc' = [pc EXCEPT ![p] = "json_" \o r.action]
    /\ UNCHANGED <<store, writer, stale, room, todo, resp, docsFile, docsFileExists, frontend>>

JsonRequest(p) ==
    /\ Arrive(p)
    /\ \E r \in JsonRequests : JsonRead(p, r)

\* the case of the switch the request is in
JsonCase(p, action) == pc[p] = "json_" \o action

\* echo json_encode(...), and the script ends
JsonEcho(p, r) ==
    /\ pc' = [pc EXCEPT ![p] = "done"]
    /\ resp' = [resp EXCEPT ![p] = r]
    /\ jsonDocs' = [jsonDocs EXCEPT ![p] = {}]
    /\ UNCHANGED <<store, writer, stale, req, room, todo, nreq, frontend>>

\* the case ends without writeDocs
JsonRefuse(p, error) ==
    /\ JsonEcho(p, JsonError(error))
    /\ UNCHANGED <<docsFile, docsFileExists>>

JsonCreate(p) ==
    /\ JsonCase(p, "create")
    /\ IF getDocById(req[p].id, jsonDocs[p]) # {}
       THEN JsonRefuse(p, "Document already exists")
       ELSE \E roomId \in generateRoomId :
               LET version == IF req[p].version = Omitted THEN "1" ELSE req[p].version
                   doc == [id |-> req[p].id, owner |-> req[p].user, tool |-> req[p].app,
                           title |-> req[p].title, versions |-> {<<version, roomId>>},
                           shared_with |-> {}]
               IN /\ writeDocs(jsonDocs[p] \cup {doc})
                  /\ JsonEcho(p, DocsResp({doc}))

JsonList(p) ==
    /\ JsonCase(p, "list")
    /\ JsonEcho(p, DocsResp(IF req[p].all /\ isAdmin(req[p].user) THEN jsonDocs[p]
                            ELSE {d \in jsonDocs[p] : hasAccess(d, req[p].user)}))
    /\ UNCHANGED <<docsFile, docsFileExists>>

JsonListByTool(p) ==
    /\ JsonCase(p, "list_by_tool")
    /\ JsonEcho(p, DocsResp({d \in jsonDocs[p] :
                                /\ d.tool = req[p].app
                                /\ \/ req[p].all /\ isAdmin(req[p].user)
                                   \/ hasAccess(d, req[p].user)}))
    /\ UNCHANGED <<docsFile, docsFileExists>>

\* the loop of rename, share and revoke: the document, changed, is written with
\* all the others and echoed
JsonUpdate(p, doc, changed) ==
    /\ writeDocs((jsonDocs[p] \ {doc}) \cup {changed})
    /\ JsonEcho(p, DocsResp({changed}))

JsonRename(p) ==
    /\ JsonCase(p, "rename")
    /\ LET found == {d \in getDocById(req[p].id, jsonDocs[p]) :
                        hasAccess(d, req[p].user) \/ isAdmin(req[p].user)}
       IN IF found = {} THEN JsonRefuse(p, "Not found or access denied")
          ELSE \E d \in found : JsonUpdate(p, d, [d EXCEPT !.title = req[p].title])

\* the documents share, revoke and delete look for
JsonOwned(p) ==
    {d \in getDocById(req[p].id, jsonDocs[p]) :
        d.owner = req[p].user \/ isAdmin(req[p].user)}

\* array_filter: the grants of the others
JsonOthers(doc, username) == {s \in doc.shared_with : s[1] # username}

JsonShare(p) ==
    /\ JsonCase(p, "share")
    /\ IF JsonOwned(p) = {} THEN JsonRefuse(p, "Not found or not owner")
       ELSE \E d \in JsonOwned(p) :
               JsonUpdate(p, d,
                   [d EXCEPT !.shared_with =
                       JsonOthers(d, req[p].username)
                           \cup {<<req[p].username, Fields(req[p].permissions)>>}])

JsonRevoke(p) ==
    /\ JsonCase(p, "revoke")
    /\ IF JsonOwned(p) = {} THEN JsonRefuse(p, "Not found or not owner")
       ELSE \E d \in JsonOwned(p) :
               JsonUpdate(p, d, [d EXCEPT !.shared_with = JsonOthers(d, req[p].username)])

\* a delete that leaves the document in the file
JsonDelete_Keep(p) ==
    /\ JsonCase(p, "delete")
    /\ IF JsonOwned(p) = {} THEN JsonRefuse(p, "Not found or not owner")
       ELSE /\ writeDocs(jsonDocs[p])
            /\ JsonEcho(p, SuccessResp)

JsonDelete(p) ==
    /\ JsonCase(p, "delete")
    /\ IF JsonOwned(p) = {} THEN JsonRefuse(p, "Not found or not owner")
       ELSE \E d \in JsonOwned(p) :
               /\ writeDocs(jsonDocs[p] \ {d})
               /\ JsonEcho(p, SuccessResp)

JsonAccess(p) ==
    /\ JsonCase(p, "access")
    /\ IF getDocById(req[p].id, jsonDocs[p]) = {} THEN JsonRefuse(p, "Not found")
       ELSE \E doc \in getDocById(req[p].id, jsonDocs[p]) :
               LET r == IF req[p].version = Omitted THEN NoRoom
                        ELSE VersionRoom(doc, req[p].version)
               IN IF req[p].version # Omitted /\ r = NoRoom
                  THEN JsonRefuse(p, "Version not found")
                  ELSE /\ JsonEcho(p, RoomResp(r, getUserPermissions(doc, req[p].user)))
                       /\ UNCHANGED <<docsFile, docsFileExists>>

JsonGetRoom(p) ==
    /\ JsonCase(p, "get_room")
    /\ IF getDocById(req[p].id, jsonDocs[p]) = {} THEN JsonRefuse(p, "Not found")
       ELSE \E doc \in getDocById(req[p].id, jsonDocs[p]) :
               IF ~hasAccess(doc, req[p].user) /\ ~isAdmin(req[p].user)
               THEN JsonRefuse(p, "Access denied")
               ELSE IF VersionRoom(doc, req[p].version) # NoRoom
               THEN /\ JsonEcho(p, RoomResp(VersionRoom(doc, req[p].version), {}))
                    /\ UNCHANGED <<docsFile, docsFileExists>>
               ELSE \E r \in generateRoomId :
                       /\ writeDocs((jsonDocs[p] \ {doc}) \cup
                              {[doc EXCEPT !.versions = @ \cup {<<req[p].version, r>>}]})
                       /\ JsonEcho(p, RoomResp(r, {}))

\* the file of the JSON edition: none yet, or document d1 of alice with
\* version "1" and at most one grant for bob, to read or to write
JsonSeedDoc(grants) ==
    [id |-> "d1", owner |-> "alice", tool |-> "text", title |-> "Untitled",
     versions |-> {<<"1", 1>>}, shared_with |-> grants]
JsonSeeds ==
    {{JsonSeedDoc({})}} \cup {{JsonSeedDoc({<<"bob", Fields(ps)>>})} : ps \in JsonPerms}

JsonInit ==
    /\ \/ /\ docsFile = {}
          /\ docsFileExists = FALSE
       \/ /\ docsFile \in JsonSeeds
          /\ docsFileExists = TRUE
    /\ jsonDocs = [p \in Procs |-> {}]
    /\ documents = {}
    /\ versions = {}
    /\ shares = {}
    /\ writer = NoProc
    /\ stale = [p \in Procs |-> FALSE]
    /\ pc = [p \in Procs |-> "idle"]
    /\ req = [p \in Procs |-> NoReq]
    /\ room = [p \in Procs |-> NoRoom]
    /\ todo = [p \in Procs |-> {}]
    /\ resp = [p \in Procs |-> NoResp]
    /\ nreq = 0
    /\ NoFrontend

JsonNext ==
    \E p \in Procs :
        \/ JsonRequest(p)
        \/ JsonCreate(p)
        \/ JsonList(p)
        \/ JsonListByTool(p)
        \/ JsonRename(p)
        \/ JsonShare(p)
        \/ JsonRevoke(p)
        \/ JsonDelete(p)
        \/ JsonAccess(p)
        \/ JsonGetRoom(p)
        \/ Return(p)

JsonSpec == JsonInit /\ [][JsonNext]_vars

\* ------------------------------------------- claims on the JSON edition
\* the access predicates as the specification states them, on a JSON document
JsonCanRead(doc, user) ==
    \/ doc.owner = user
    \/ isAdmin(user)
    \/ \E s \in doc.shared_with : s[1] = user /\ "read" \in s[2]

JsonCanWrite(doc, user) ==
    \/ doc.owner = user
    \/ isAdmin(user)
    \/ \E s \in doc.shared_with : s[1] = user /\ "write" \in s[2]

\* the case of request p ends in this step
JsonAnswers(p, action) == JsonCase(p, action) /\ pc'[p] = "done"

\* C31: a rename in the JSON edition changes the title only for the owner, an
\* admin or a grantee whose grant holds 'write'; every other caller, a
\* read-only grantee among them, is answered 'Not found or access denied' and
\* the file stays as it is.
C31_RenameNeedsWrite ==
    [][\A p \in Procs :
          (/\ JsonAnswers(p, "rename")
           /\ \A d \in getDocById(req[p].id, jsonDocs[p]) : ~JsonCanWrite(d, req[p].user))
          => /\ resp'[p] = JsonError("Not found or access denied")
             /\ docsFile' = docsFile]_vars

\* C32: an access in the JSON edition returns the room only to a caller who
\* can read the document: its owner, an admin or a grantee whose grant holds
\* 'read'.  Every other caller is refused and is not told the room.
C32_AccessNeedsRead ==
    [][\A p \in Procs :
          (/\ JsonAnswers(p, "access")
           /\ \A d \in getDocById(req[p].id, jsonDocs[p]) : ~JsonCanRead(d, req[p].user))
          => /\ resp'[p].error # ""
             /\ resp'[p].room = NoRoom]_vars

\* ------------------------------------------------ claims on transactions
\* the statements of create and create_version that run inside a transaction
\* and can throw
InTransaction == {"create_insert_doc", "create_insert_version", "cv_insert"}

\* C33: a create or create_version that fails inside its transaction (a room
\* taken, a key or a foreign key violated, the database locked) is rolled
\* back: the request is answered an error, the store is as it was, and the
\* write lock is free again.
C33_FailureRollsBack ==
    [][\A p \in Procs :
          (pc[p] \in InTransaction /\ pc'[p] = "done")
          => /\ resp'[p].code = 500
             /\ resp'[p].error # ""
             /\ store' = store
             /\ writer' # p]_vars

\* a create_version has failed on a room that is taken; its version is not
\* stored and the write lock is not with it
C33_Witness ==
    \E q \in Procs :
        /\ pc[q] = "done" /\ req[q].action = "create_version"
        /\ resp[q] = ErrorResp(500, ErrRoomTaken)
        /\ VersionRows(versions, req[q].id, req[q].version) = {}
        /\ writer # q

\* ------------------------------------------- claims on the JSON edition
\* C34: the JSON edition does not have the concurrency properties.  A request
\* that writes puts into the file the documents it read at its start, with its
\* own change to its own document, whatever the file holds by then: the other
\* documents of the file are those of the request's snapshot.  So two
\* concurrent get_room for one unset (id, version) can be answered two rooms,
\* and a write that was acknowledged can be overwritten and lost.
C34_WriteReplacesFile ==
    [][\A p \in Procs :
          (pc[p] # pc'[p] /\ <<docsFile, docsFileExists>>' # <<docsFile, docsFileExists>>)
          => /\ docsFileExists'
             /\ {d \in docsFile' : d.id # req[p].id} = {d \in jsonDocs[p] : d.id # req[p].id}
             /\ \A d \in docsFile' :
                   d.id = req[p].id =>
                      \/ req[p].action = "create"
                      \/ \E e \in jsonDocs[p] :
                            /\ e.id = d.id /\ e.owner = d.owner /\ e.tool = d.tool
                            /\ req[p].action # "rename" => e.title = d.title
                            /\ req[p].action \notin {"share", "revoke"}
                                  => e.shared_with = d.shared_with
                            /\ IF req[p].action = "get_room"
                               THEN e.versions \subseteq d.versions
                               ELSE e.versions = d.versions]_vars

\* two get_room for one (id, version) have been answered different rooms, the
\* file holds the room of one, and the acknowledged room of the other is lost
C34_Witness ==
    \E p, q \in Procs :
        /\ pc[p] = "done" /\ pc[q] = "done"
        /\ req[p].action = "get_room" /\ req[q].action = "get_room"
        /\ req[p].id = req[q].id /\ req[p].version = req[q].version
        /\ resp[p].room # NoRoom /\ resp[q].room # NoRoom
        /\ resp[p].room # resp[q].room
        /\ \E d \in docsFile :
              /\ d.id = req[p].id
              /\ <<req[p].version, resp[p].room>> \in d.versions
              /\ <<req[q].version, resp[q].room>> \notin d.versions

\* ================================================= the two editions side by side
\* One client sends each of its requests, create or delete, to both editions:
\* connection 1 serves it in the SQLite edition, and when that has answered,
\* connection 2 serves the same request in the JSON edition.
Sqlite == 1
Json == 2

\* the request answered by the SQLite edition goes to the JSON edition
PairMirror ==
    /\ pc[Sqlite] = "done"
    /\ pc[Json] = "idle"
    /\ JsonRead(Json, req[Sqlite])
    /\ UNCHANGED nreq

\* both answers are with the client
PairReturn ==
    /\ pc[Sqlite] = "done"
    /\ pc[Json] = "done"
    /\ pc' = [p \in Procs |-> "idle"]
    /\ req' = [p \in Procs |-> NoReq]
    /\ resp' = [p \in Procs |-> NoResp]
    /\ room' = [p \in Procs |-> NoRoom]
    /\ UNCHANGED <<store, writer, stale, todo, nreq, outside>>

\* both stores empty, or both after create(d1) by alice
PairInit ==
    /\ \/ /\ documents = {}
          /\ versions = {}
          /\ docsFile = {}
          /\ docsFileExists = FALSE
       \/ /\ documents = SeedDocuments
          /\ versions = SeedVersions
          /\ docsFile = {JsonSeedDoc({})}
          /\ docsFileExists = TRUE
    /\ shares = {}
    /\ jsonDocs = [p \in Procs |-> {}]
    /\ writer = NoProc
    /\ stale = [p \in Procs |-> FALSE]
    /\ pc = [p \in Procs |-> "idle"]
    /\ req = [p \in Procs |-> NoReq]
    /\ room = [p \in Procs |-> NoRoom]
    /\ todo = [p \in Procs |-> {}]
    /\ resp = [p \in Procs |-> NoResp]
    /\ nreq = 0
    /\ NoFrontend

PairNext ==
    \/ Create(Sqlite, FALSE)
    \/ Delete(Sqlite, Ids, FALSE)
    \/ PairMirror
    \/ JsonCreate(Json)
    \/ JsonDelete(Json)
    \/ PairReturn

PairSpec == PairInit /\ [][PairNext]_vars

\* ------------------------------------------- claims on the two editions
\* the JSON edition answers, in this step, the request the SQLite edition has
\* answered
PairAnswers(action) == pc[Sqlite] = "done" /\ JsonAnswers(Json, action)

\* the two stores hold no document but the request's, and that one, deleted or
\* not, is the caller's
OwnDocumentOnly(r) ==
    /\ \A d \in documents : d.id = r.id /\ d.owner = r.user
    /\ \A d \in jsonDocs[Json] : d.id = r.id /\ d.owner = r.user

\* the same answer from both editions, whatever the rooms and the status of
\* an error
SameOutcome(a, b) ==
    /\ a.error = b.error
    /\ a.success = b.success
    /\ {<<d.id, d.owner, d.title, d.shared_with>> : d \in a.docs}
          = {<<d.id, d.owner, d.title, d.shared_with>> : d \in b.docs}

\* the ids of the rows that were not deleted when the SQLite edition took the
\* request it has answered: a delete it accepted from a user who is not an
\* admin found the row live, a create it accepted found no row of the id.  (An
\* admin's delete is accepted on a deleted row as well and tells nothing.)
LiveBefore ==
    LET rows == {d.id : d \in {e \in documents : ~e.deleted}}
        r == req[Sqlite]
    IN  IF r.action = "delete" /\ resp[Sqlite].success /\ ~isAdmin(r.user)
        THEN rows \cup {r.id}
        ELSE IF r.action = "create" /\ resp[Sqlite].error = ""
             THEN rows \ {r.id}
             ELSE rows

\* the two editions have answered every earlier request alike: the documents
\* the JSON edition reads are the rows the SQLite edition found rows
Agreeing == {d.id : d \in jsonDocs[Json]} = LiveBefore

\* C35: on create(id), delete(id), create(id) by the owner the two editions
\* differ at the last step only.  Both create the document, both delete it;
\* the second create is answered 409 'Document already exists' by the SQLite
\* edition, which keeps the deleted row, and is accepted by the JSON edition,
\* which stores the document anew with a room it generates.
C35_DivergeAtRecreate ==
    [][\A action \in {"create", "delete"} :
          (/\ PairAnswers(action)
           /\ OwnDocumentOnly(req[Json])
           /\ Agreeing
           /\ action = "delete" => getDocById(req[Json].id, jsonDocs[Json]) # {})
          => IF /\ action = "create"
                /\ getDocById(req[Json].id, jsonDocs[Json]) = {}
                /\ \E d \in documents : d.deleted
             THEN /\ resp[Sqlite] = ErrorResp(409, "Document already exists")
                  /\ resp'[Json].error = ""
                  /\ \E d \in docsFile' :
                        /\ resp'[Json].docs = {d}
                        /\ d.id = req[Json].id /\ d.owner = req[Json].user
                        /\ \E r \in Rooms : d.versions = {<<"1", r>>}
             ELSE /\ SameOutcome(resp[Sqlite], resp'[Json])
                  /\ ({d \in documents : ~d.deleted} = {}) = (docsFile' = {})
                  /\ action = "create" => resp'[Json].docs # {} \/ resp'[Json].error # ""]_vars

\* the second create of d1 by alice, after her delete: refused by the SQLite
\* edition, stored by the JSON edition
C35_Witness ==
    /\ pc[Sqlite] = "done" /\ pc[Json] = "done"
    /\ req[Json].action = "create" /\ req[Json].user = "alice" /\ req[Json].id = "d1"
    /\ resp[Sqlite] = ErrorResp(409, "Document already exists")
    /\ resp[Json].error = ""
    /\ \E d \in documents : d.id = "d1" /\ d.deleted
    /\ \E d \in docsFile : d.id = "d1" /\ d.owner = "alice"

\* ========================================== the import of the JSON file
\* Every request of the SQLite edition starts with the import: if the JSON
\* file exists and the table documents is empty, the file is read and its
\* documents are inserted in one transaction, and the file is renamed.  The
\* import stands outside any try: an exception ends the request.
MigDocRow(d) ==
    [id |-> d.id, owner |-> d.owner, app |-> d.tool, title |-> d.title, deleted |-> FALSE,
     updated_at |-> time(FALSE)]

MigVersionRows(d) ==
    {[document_id |-> d.id, version |-> v[1], room_id |-> v[2]] : v \in d.versions}

\* a grant that writes as soon as the permissions are not empty
MigShareRows_AnyWrites(d) ==
    {[document_id |-> d.id, username |-> s[1],
      can_read |-> "read" \in s[2], can_write |-> s[2] # {}] : s \in d.shared_with}

\* $canRead = in_array('read', ...) ? 1 : 0; $canWrite = in_array('write', ...) ? 1 : 0
MigShareRows(d) ==
    {[document_id |-> d.id, username |-> s[1],
      can_read |-> "read" \in s[2], can_write |-> "write" \in s[2]] : s \in d.shared_with}

\* the first constraint the INSERTs of the import violate, "" for none
MigInsertError(ds) ==
    IF \E d \in ds : DocRows(documents, d.id) # {} THEN ErrDocTaken
    ELSE IF \/ \E d \in ds : \E v \in d.versions : \E w \in versions : w.room_id = v[2]
            \/ \E d, e \in ds : \E v \in d.versions, w \in e.versions :
                  <<d.id, v[1]>> # <<e.id, w[1]>> /\ v[2] = w[2]
         THEN ErrRoomTaken
         ELSE ""

\* file_exists(DOCS_JSON_FILE), and SELECT COUNT(*) FROM documents finds 0
MigCount(p) ==
    /\ pc[p] = "idle"
    /\ \A q \in Procs : q < p => pc[q] # "idle"
    /\ docsFileExists
    /\ documents = {}
    /\ pc' = [pc EXCEPT ![p] = "mig_read"]
    /\ UNCHANGED <<store, writer, stale, req, room, todo, resp, nreq, outside>>

\* $jsonDocs = json_decode(file_get_contents(DOCS_JSON_FILE), true); nothing
\* is imported from a file that is gone or holds no document
MigRead(p) ==
    /\ pc[p] = "mig_read"
    /\ jsonDocs' = [jsonDocs EXCEPT ![p] = readDocs]
    /\ pc' = [pc EXCEPT ![p] = IF readDocs = {} THEN "idle" ELSE "mig_insert"]
    /\ UNCHANGED <<store, writer, stale, req, room, todo, resp, nreq, docsFile,
                   docsFileExists, frontend>>

\* beginTransaction and the INSERTs, the first of which waits for the write
\* lock; the rows are pending until the commit
MigInsert(p) ==
    /\ pc[p] = "mig_insert"
    /\ writer = NoProc
    /\ IF MigInsertError(jsonDocs[p]) # ""
       THEN /\ pc' = [pc EXCEPT ![p] = "done"]
            /\ resp' = [resp EXCEPT ![p] = ErrorResp(500, MigInsertError(jsonDocs[p]))]
            /\ jsonDocs' = [jsonDocs EXCEPT ![p] = {}]
            /\ UNCHANGED writer
       ELSE /\ pc' = [pc EXCEPT ![p] = "mig_commit"]
            /\ writer' = p
            /\ UNCHANGED <<resp, jsonDocs>>
    /\ UNCHANGED <<store, stale, req, room, todo, nreq, docsFile, docsFileExists, frontend>>

\* commit
MigCommit(p) ==
    /\ pc[p] = "mig_commit"
    /\ documents' = documents \cup {MigDocRow(d) : d \in jsonDocs[p]}
    /\ versions' = versions \cup UNION {MigVersionRows(d) : d \in jsonDocs[p]}
    /\ shares' = shares \cup UNION {MigShareRows(d) : d \in jsonDocs[p]}
    /\ writer' = NoProc
    /\ stale' = Committed(p)
    /\ pc' = [pc EXCEPT ![p] = "mig_rename"]
    /\ UNCHANGED <<req, room, todo, resp, nreq, outside>>

\* rename(DOCS_JSON_FILE, DOCS_JSON_FILE . '.bak'); the request goes on to
\* its action
MigRename(p) ==
    /\ pc[p] = "mig_rename"
    /\ docsFile' = {}
    /\ docsFileExists' = FALSE
    /\ jsonDocs' = [jsonDocs EXCEPT ![p] = {}]
    /\ pc' = [pc EXCEPT ![p] = "idle"]
    /\ UNCHANGED <<store, writer, stale, req, room, todo, resp, nreq, frontend>>

Migrate(p) ==
    \/ MigCount(p)
    \/ MigRead(p)
    \/ MigInsert(p)
    \/ MigCommit(p)
    \/ MigRename(p)

\* the import is not entered, or is left at once: no file, an empty one, or
\* a table with rows
NoImport == ~docsFileExists \/ docsFile = {} \/ documents # {}

\* the files the JSON edition leaves: one document with or without a grant,
\* with one version or two, two documents, two documents whose rooms are the
\* same token, and a file without documents
MigSeedDoc(id, rooms, grants) ==
    [id |-> id, owner |-> "alice", tool |-> "text", title |-> "T",
     versions |-> rooms, shared_with |-> grants]
MigGrants == {{}, {<<"bob", {"read"}>>}, {<<"bob", {"write"}>>}, {<<"bob", {"admin"}>>}}
MigFiles ==
    {{MigSeedDoc("d1", {<<"1", 1>>}, g)} : g \in MigGrants}
    \cup {{MigSeedDoc("d1", {<<"1", 1>>, <<"2", 2>>}, g)} : g \in MigGrants}
    \cup {{MigSeedDoc("d1", {<<"1", 1>>}, g), MigSeedDoc("d2", {<<"1", r>>}, {})} :
            g \in MigGrants, r \in {1, 2}}
    \cup {{}}

MigInit ==
    /\ docsFile \in MigFiles
    /\ docsFileExists = TRUE
    /\ jsonDocs = [p \in Procs |-> {}]
    /\ documents = {}
    /\ versions = {}
    /\ shares = {}
    /\ writer = NoProc
    /\ stale = [p \in Procs |-> FALSE]
    /\ pc = [p \in Procs |-> "idle"]
    /\ req = [p \in Procs |-> NoReq]
    /\ room = [p \in Procs |-> NoRoom]
    /\ todo = [p \in Procs |-> {}]
    /\ resp = [p \in Procs |-> NoResp]
    /\ nreq = 0
    /\ NoFrontend

\* the requests: their import, and once that has nothing to do, their action
MigNext ==
    \E p \in Procs :
        \/ Migrate(p)
        \/ NoImport /\ Create(p, FALSE)
        \/ NoImport /\ Delete(p, Ids, FALSE)
        \/ NoImport /\ Access(p)
        \/ Return(p)

MigSpec == MigInit /\ [][MigNext]_vars

\* -------------------------------------------------- claims on the import
\* the documents, versions and grants of the tables, in the shape of the file
Stored(docs, vers, shs) ==
    {[id |-> d.id, owner |-> d.owner, title |-> d.title,
      versions |-> {<<v.version, v.room_id>> : v \in {w \in vers : w.document_id = d.id}},
      grants |-> {<<s.username, s.can_read, s.can_write>> :
                     s \in {t \in shs : t.document_id = d.id}}] : d \in docs}

\* the documents of the file, their permissions as the two flags
Filed(ds) ==
    {[id |-> d.id, owner |-> d.owner, title |-> d.title, versions |-> d.versions,
      grants |-> {<<s[1], "read" \in s[2], "write" \in s[2]>> : s \in d.shared_with}] :
        d \in ds}

\* C36: the import of the JSON file keeps the data and happens once.  Its
\* commit finds the table empty and leaves in the tables exactly the documents
\* of the file, each with its owner, its title, its rooms by version and its
\* grants, can_read and can_write telling whether 'read' and 'write' are among
\* the permissions; the step after the commit takes the file's name away; and
\* of two requests that both found the table empty one commits, so that no
\* document is imported twice.
C36_ImportOnceKeepsData ==
    [][\A p \in Procs :
          /\ (pc[p] = "mig_commit" /\ pc'[p] # "mig_commit")
             => /\ documents = {}
                /\ docsFileExists
                /\ Stored(documents', versions', shares') = Filed(docsFile)
                /\ \A d \in documents' : ~d.deleted
          /\ (pc[p] = "mig_rename" /\ pc'[p] # "mig_rename")
             => /\ ~docsFileExists'
                /\ documents # {}
          /\ (pc[p] = "mig_insert" /\ pc'[p] = "done")
             => /\ resp'[p].code = 500
                /\ store' = store]_vars

\* two requests found the table empty; one has imported a document with its
\* grant and renamed the file, the other has failed on the document's key
C36_Witness ==
    \E q \in Procs :
        /\ pc[q] = "done" /\ resp[q] = ErrorResp(500, ErrDocTaken)
        /\ ~docsFileExists
        /\ \E d \in documents : d.id = "d1" /\ d.owner = "alice" /\ d.title = "T"
        /\ \E s \in shares : s.username = "bob" /\ s.can_read /\ ~s.can_write
        /\ Cardinality(versions) = 2

\* ================================================== the document browser
\* The share state of the browser component: shareDoc, the document of the
\* share dialog, which is open while shareDoc is set; the dialog's inputs; and
\* the grants on the badges of the list.  A handler runs with the state of the
\* render it was created in: a setState of the handler shows in the next
\* render, not in the statements that follow it.  The API is configured, and
\* the answer to a call is there before the next click.
backend ==
    <<documents, versions, shares, writer, stale, pc, req, room, todo, resp, nreq, jsonVars>>

RevokeCall(id, username) ==
    [method |-> "revokeShare", id |-> id, username |-> username, permissions |-> {}]
ShareCall(id, username, permissions) ==
    [method |-> "shareDocument", id |-> id, username |-> username,
     permissions |-> permissions]
Clicked(kind, id, username) == [kind |-> kind, id |-> id, username |-> username]

\* handleRevokeShare(username), shareDoc that of the render: nothing without
\* it, else the call, and after a success loadDocuments()
handleRevokeShare(username) ==
    IF shareDoc = NoDoc
    THEN /\ issued' = NoCall
         /\ UNCHANGED docList
    ELSE \E ok \in BOOLEAN :
            /\ issued' = RevokeCall(shareDoc, username)
            /\ docList' = IF ok THEN docList \ {<<shareDoc, username>>} ELSE docList

\* the revoke button of a badge: setShareDoc(doc); handleRevokeShare(username)
ClickRevoke ==
    \E g \in docList :
        /\ click' = Clicked("revoke", g[1], g[2])
        /\ shareDoc' = g[1]
        /\ handleRevokeShare(g[2])
        /\ UNCHANGED <<shareUsername, sharePermissions, backend, dmVars>>

\* the share button of a document: setShareDoc(doc)
ClickShare ==
    \E doc \in Ids :
        /\ click' = Clicked("share", doc, "")
        /\ shareDoc' = doc
        /\ issued' = NoCall
        /\ UNCHANGED <<shareUsername, sharePermissions, docList, backend, dmVars>>

\* Cancel, or the dialog's onOpenChange: setShareDoc(null)
CloseShareDialog ==
    /\ shareDoc # NoDoc
    /\ click' = Clicked("close", "", "")
    /\ shareDoc' = NoDoc
    /\ issued' = NoCall
    /\ UNCHANGED <<shareUsername, sharePermissions, docList, backend, dmVars>>

\* the username input of the dialog
TypeUsername ==
    /\ shareDoc # NoDoc
    /\ \E u \in Grantees \cup {""} :
          /\ u # shareUsername
          /\ click' = Clicked("username", "", u)
          /\ shareUsername' = u
    /\ issued' = NoCall
    /\ UNCHANGED <<shareDoc, sharePermissions, docList, backend, dmVars>>

\* the two checkboxes of the dialog
TogglePermission ==
    /\ shareDoc # NoDoc
    /\ \E perm \in {"read", "write"} :
          /\ click' = Clicked(perm, "", "")
          /\ sharePermissions' = IF perm \in sharePermissions
                                 THEN sharePermissions \ {perm}
                                 ELSE sharePermissions \cup {perm}
    /\ issued' = NoCall
    /\ UNCHANGED <<shareDoc, shareUsername, docList, backend, dmVars>>

\* the dialog's Share button: handleShare
handleShare ==
    /\ shareDoc # NoDoc
    /\ shareUsername # ""
    /\ click' = Clicked("submit", "", "")
    /\ issued' = ShareCall(shareDoc, shareUsername, sharePermissions)
    /\ \/ /\ shareDoc' = NoDoc
          /\ shareUsername' = ""
          /\ sharePermissions' = {"read"}
          /\ docList' = docList \cup {<<shareDoc, shareUsername>>}
       \/ UNCHANGED <<shareDoc, shareUsername, sharePermissions, docList>>
    /\ UNCHANGED <<backend, dmVars>>

\* the browser mounts with any grants of bob on the two documents listed
UiInit ==
    /\ \E grants \in SUBSET (Ids \X Grantees) : BrowserMounted(grants)
    /\ Constructed
    /\ docsFile = {}
    /\ docsFileExists = FALSE
    /\ jsonDocs = [p \in Procs |-> {}]
    /\ documents = {}
    /\ versions = {}
    /\ shares = {}
    /\ writer = NoProc
    /\ stale = [p \in Procs |-> FALSE]
    /\ pc = [p \in Procs |-> "idle"]
    /\ req = [p \in Procs |-> NoReq]
    /\ room = [p \in Procs |-> NoRoom]
    /\ todo = [p \in Procs |-> {}]
    /\ resp = [p \in Procs |-> NoResp]
    /\ nreq = 0

UiNext ==
    \/ ClickRevoke
    \/ ClickShare
    \/ CloseShareDialog
    \/ TypeUsername
    \/ TogglePermission
    \/ handleShare

UiSpec == UiInit /\ [][UiNext]_vars

\* ------------------------------------------ claims on the document browser
\* C37: a click on the revoke button of a grantee's badge issues revokeShare
\* for the badge's document and username, whatever the share dialog's state
\* was before the click, the first click with no document selected included.
C37_RevokeClickRevokes ==
    click.kind = "revoke" => issued = RevokeCall(click.id, click.username)

\* ========================================== the DocumentManagerProvider
\* wsProvider is the WebsocketProvider of the connection or null.  A promise
\* of waitForSynced is [provider, state, error, timer, onSync, onStatus]: the
\* WebsocketProvider its listeners are registered on, pending, resolved or
\* rejected with an error, whether its timeout is armed, and whether its
\* once("sync") and once("status") listeners are still registered.  The
\* events come from the library: a WebsocketProvider that is not destroyed
\* emits sync and status events of any kind in any order.
Statuses == {"connecting", "connected", "disconnected"}
Event(kind, provider, value) == [kind |-> kind, provider |-> provider, value |-> value]

Pending(k) ==
    [provider |-> k, state |-> "pending", error |-> "", timer |-> TRUE,
     onSync |-> TRUE, onStatus |-> TRUE]

\* throw new Error("Not connected") in the async function
NotConnected ==
    [provider |-> NoProvider, state |-> "rejected", error |-> "Not connected",
     timer |-> FALSE, onSync |-> FALSE, onStatus |-> FALSE]

\* resolve() and reject(error) settle a pending promise and nothing else
resolve(pr) == IF pr.state = "pending" THEN [pr EXCEPT !.state = "resolved"] ELSE pr
reject(pr, error) ==
    IF pr.state = "pending" THEN [pr EXCEPT !.state = "rejected", !.error = error] ELSE pr
clearTimeout(pr) == [pr EXCEPT !.timer = FALSE]

\* the listener of once("sync")
onSync(pr, isSynced) ==
    IF isSynced
    THEN resolve(clearTimeout([pr EXCEPT !.onSync = FALSE]))
    ELSE reject(clearTimeout([pr EXCEPT !.onSync = FALSE]), "Sync failed")

\* a status listener that clears the timeout for every status
onStatus_ClearsAlways(pr, status) ==
    IF status = "disconnected"
    THEN reject(clearTimeout([pr EXCEPT !.onStatus = FALSE]), "Disconnected")
    ELSE clearTimeout([pr EXCEPT !.onStatus = FALSE])

\* the listener of once("status"): gone after the first status event
onStatus(pr, status) ==
    IF status = "disconnected"
    THEN reject(clearTimeout([pr EXCEPT !.onStatus = FALSE]), "Disconnected")
    ELSE [pr EXCEPT !.onStatus = FALSE]

\* the callback of setTimeout
onTimeout(pr) == reject([pr EXCEPT !.timer = FALSE], "Connection timeout")

\* a connect that does not look at wsProvider
connect_Always ==
    /\ made < MaxProviders
    /\ made' = made + 1
    /\ wsProvider' = made + 1
    /\ live' = live \cup {made + 1}
    /\ last' = Event("connect", made + 1, "")
    /\ UNCHANGED <<promises, uiVars, backend>>

connect ==
    /\ IF wsProvider # NoProvider
       THEN UNCHANGED <<wsProvider, live, made>>
       ELSE /\ made < MaxProviders
            /\ made' = made + 1
            /\ wsProvider' = made + 1
            /\ live' = live \cup {made + 1}
    /\ last' = Event("connect", wsProvider', "")
    /\ UNCHANGED <<promises, uiVars, backend>>

disconnect ==
    /\ IF wsProvider # NoProvider
       THEN /\ live' = live \ {wsProvider}
            /\ wsProvider' = NoProvider
       ELSE UNCHANGED <<wsProvider, live>>
    /\ last' = Event("disconnect", wsProvider, "")
    /\ UNCHANGED <<made, promises, uiVars, backend>>

waitForSynced ==
    /\ Len(promises) < MaxPromises
    /\ promises' = Append(promises,
                          IF wsProvider = NoProvider THEN NotConnected
                          ELSE Pending(wsProvider))
    /\ last' = Event("waitForSynced", wsProvider, "")
    /\ UNCHANGED <<wsProvider, live, made, uiVars, backend>>

\* the WebsocketProvider emits sync
Sync ==
    \E k \in live, isSynced \in BOOLEAN :
        /\ promises' = [i \in DOMAIN promises |->
                          IF promises[i].provider = k /\ promises[i].onSync
                          THEN onSync(promises[i], isSynced)
                          ELSE promises[i]]
        /\ last' = Event("sync", k, IF isSynced THEN "true" ELSE "false")
        /\ UNCHANGED <<wsProvider, live, made, uiVars, backend>>

\* the WebsocketProvider emits status
Status ==
    \E k \in live, status \in Statuses :
        /\ promises' = [i \in DOMAIN promises |->
                          IF promises[i].provider = k /\ promises[i].onStatus
                          THEN onStatus(promises[i], status)
                          ELSE promises[i]]
        /\ last' = Event("status", k, status)
        /\ UNCHANGED <<wsProvider, live, made, uiVars, backend>>

\* the ten seconds of a promise's timeout are over
Timeout(i) ==
    /\ i \in DOMAIN promises
    /\ promises[i].timer
    /\ promises' = [promises EXCEPT ![i] = onTimeout(promises[i])]
    /\ last' = Event("timeout", promises[i].provider, "")
    /\ UNCHANGED <<wsProvider, live, made, uiVars, backend>>

ProvInit ==
    /\ Constructed
    /\ BrowserMounted({})
    /\ docsFile = {}
    /\ docsFileExists = FALSE
    /\ jsonDocs = [p \in Procs |-> {}]
    /\ documents = {}
    /\ versions = {}
    /\ shares = {}
    /\ writer = NoProc
    /\ stale = [p \in Procs |-> FALSE]
    /\ pc = [p \in Procs |-> "idle"]
    /\ req = [p \in Procs |-> NoReq]
    /\ room = [p \in Procs |-> NoRoom]
    /\ todo = [p \in Procs |-> {}]
    /\ resp = [p \in Procs |-> NoResp]
    /\ nreq = 0

ProvNext ==
    \/ connect
    \/ disconnect
    \/ waitForSynced
    \/ Sync
    \/ Status
    \/ \E i \in 1..MaxPromises : Timeout(i)

ProvSpec == ProvInit /\ [][ProvNext]_vars

\* a timeout that is armed fires unless it is cleared
ProvFairSpec ==
    ProvInit /\ [][ProvNext]_vars /\ \A i \in 1..MaxPromises : WF_vars(Timeout(i))

\* ---------------------------------- claims on the DocumentManagerProvider
\* C38: over any sequence of connect() and disconnect() at most one
\* WebsocketProvider is live.  A connect() on a connected provider constructs
\* nothing, a disconnect() destroys the live one and leaves none, and a
\* waitForSynced() with none live fails with 'Not connected'.
C38_AtMostOneLive ==
    [][/\ Cardinality(live') <= 1
       /\ live' = {wsProvider'} \ {NoProvider}
       /\ (last'.kind = "connect" /\ wsProvider # NoProvider)
             => UNCHANGED <<wsProvider, live, made>>
       /\ last'.kind = "disconnect" => live' = {} /\ wsProvider' = NoProvider
       /\ (last'.kind = "waitForSynced" /\ live = {})
             => promises'[Len(promises')] = NotConnected]_vars

\* connect() has been called on a provider that was connected and had a
\* promise waiting: the first WebsocketProvider is still the only one
C38_Witness ==
    /\ last = Event("connect", 1, "")
    /\ made = 1
    /\ live = {1}
    /\ \E i \in DOMAIN promises : promises[i].provider = 1

\* promise i of waitForSynced is pending, is settled
IsPending(i) == i \in DOMAIN promises /\ promises[i].state = "pending"
IsSettled(i) == i \in DOMAIN promises /\ promises[i].state # "pending"

\* C39: a promise that waitForSynced() returned on a connected provider
\* settles in the end, and once: it resolves on a sync event with true, and it
\* is rejected on a sync event with false, on a status event 'disconnected' or
\* by its timeout; a settled promise stays as it is.
C39_SettlesOnce ==
    /\ \A i \in 1..MaxPromises : IsPending(i) ~> IsSettled(i)
    /\ [][\A i \in DOMAIN promises :
             /\ IsSettled(i)
                   => /\ promises'[i].state = promises[i].state
                      /\ promises'[i].error = promises[i].error
             /\ (IsPending(i) /\ promises'[i].state = "resolved")
                   => last' = Event("sync", promises[i].provider, "true")
             /\ (IsPending(i) /\ promises'[i].state = "rejected")
                   => \/ /\ last' = Event("sync", promises[i].provider, "false")
                         /\ promises'[i].error = "Sync failed"
                      \/ /\ last' = Event("status", promises[i].provider, "disconnected")
                         /\ promises'[i].error = "Disconnected"
                      \/ /\ last' = Event("timeout", promises[i].provider, "")
                         /\ promises'[i].error = "Connection timeout"]_vars

\* a promise whose provider was destroyed has been rejected by its timeout,
\* and another one has resolved
C39_Witness ==
    \E i, j \in DOMAIN promises :
        /\ promises[i].state = "rejected" /\ promises[i].error = "Connection timeout"
        /\ promises[i].provider \notin live
        /\ promises[j].state = "resolved"

\* C40: a status event 'disconnected' rejects a pending promise of
\* waitForSynced() with 'Disconnected' and clears its timeout, whatever status
\* events, 'connecting' for one, came before it.
C40_DisconnectedRejects ==
    [][\A i \in DOMAIN promises :
          (/\ IsPending(i)
           /\ last' = Event("status", promises[i].provider, "disconnected")
           /\ promises[i].provider \in live)
          => /\ promises'[i].state = "rejected"
             /\ promises'[i].error = "Disconnected"
             /\ ~promises'[i].timer]_vars
====
